---- MODULE Spec2Model ----
(***************************************************************************)
(* Model of the food-analyst bot (src/bot.js): the nutrition ledger        *)
(* ('nutrition_data'), the message-association index                       *)
(* ('message_associations') and the handlers that read-modify-write them.  *)
(*                                                                         *)
(* Every handler is an async task.  One action of the model is one         *)
(* synchronous segment of a handler: it resumes from the previous await,   *)
(* runs to the next await and issues that await's I/O.  All Redis commands *)
(* go over one connection and are served in order, so a GET reads the      *)
(* store when it is issued and a SET writes it when it is issued.          *)
(*                                                                         *)
(* Numbers: calories in kcal; protein, carbs, fat, fiber and hydration in  *)
(* tenths of their unit, so that the one-decimal values the correction     *)
(* parser produces are integers.  Strings that the code takes apart        *)
(* (food names, serving sizes, reply texts) are sequences of characters.   *)
(***************************************************************************)
EXTENDS Integers, Sequences, FiniteSets, TLC

VARIABLES
    now,      \* the clock: what new Date() returns, as [day, ms]
    ledger,   \* Redis key 'nutrition_data': chatId -> date -> entries
    assoc,    \* Redis key 'message_associations': messageId -> association
    tasks,    \* the handlers in flight: position and locals of each
    events,   \* number of inbound events handled so far
    nextUid,  \* history: number of entries appended so far
    reported, \* history: <<chatId, messageId>> -> uid of the entry it reported
    ver,      \* history: number of SETs of 'nutrition_data' so far
    succeeded, \* history: the replies that succeeded, <<kind, chatId, messageId>>
    appendLog, \* history: <<chatId, date>> -> what was appended to the partition
    goals,    \* Redis key 'goals': the goals saved last, for all chats
    users,    \* Redis key 'users': user id -> the record saveUserInfo stored
    keyOk,    \* whether ENCRYPTION_KEY is a key createCipheriv accepts (32 bytes)
    listeners \* the 'message' listeners the dialogs registered, in the order of bot.on

vars == <<now, ledger, assoc, tasks, events, nextUid, reported, ver, succeeded, appendLog,
          goals, users, keyOk, listeners>>

\* ------------------------------------------------------------------ bounds
NTasks == 2
MaxEvents == 3
MaxDay == 1
MaxMsg == 2
MaxEraseArg == 2

Tasks == 1..NTasks
Chats == {"A", "B"}
MsgIds == 1..MaxMsg

\* A reading of the clock is [day, ms]: the UTC date and the instant.  Only
\* the date and the order of the instants matter to the code.
\* new Date().toISOString().split('T')[0]
Today(t) == t.day

\* the clock after a reading was stored: no two stored readings are equal
Later(t) == [t EXCEPT !.ms = t.ms + 1]

\* ------------------------------------------------------------- JS objects
\* {} : the object with no keys
EmptyObj == <<>>

Has(o, k) == k \in DOMAIN o

\* {...a, ...b}: b's keys override a's
Spread(a, b) == [k \in DOMAIN a \cup DOMAIN b |-> IF k \in DOMAIN b THEN b[k] ELSE a[k]]

\* o[k] = v  on a copy
Put(o, k, v) == [x \in DOMAIN o \cup {k} |-> IF x = k THEN v ELSE o[x]]

\* a.k === b.k, where a missing key reads as undefined
FieldEq(a, b, k) == /\ Has(a, k) <=> Has(b, k)
                    /\ Has(a, k) => a[k] = b[k]

\* o.k || 0
NumOr0(o, k) == IF Has(o, k) THEN o[k] ELSE 0

\* entries.splice(i, 1) with a 0-based i: the remaining entries
SpliceOut(s, i) == [j \in 1..(Len(s) - 1) |-> IF j <= i THEN s[j] ELSE s[j + 1]]

\* entries.findIndex(P), hits[j] being P of the j-th entry: the 0-based index of
\* the first match, -1 if none
FirstIndex(hits) ==
    IF \E j \in 1..Len(hits) : hits[j]
    THEN (CHOOSE j \in 1..Len(hits) : hits[j] /\ \A k \in 1..(j - 1) : ~hits[k]) - 1
    ELSE -1

\* data[chatId] && data[chatId][day]
HasPartition(data, chatId, day) == Has(data, chatId) /\ Has(data[chatId], day)

\* the entries of a partition, none when it does not exist
Partition(data, chatId, day) ==
    IF HasPartition(data, chatId, day) THEN data[chatId][day] ELSE <<>>

\* data[chatId][day] = entries  on a copy, creating data[chatId] on demand
PutPartition(data, chatId, day, entries) ==
    Put(data, chatId, Put(IF Has(data, chatId) THEN data[chatId] ELSE EmptyObj, day, entries))

\* --------------------------------------------------------- the ledger

RECURSIVE SumFieldOr0(_, _)
\* totals.k += entry.k || 0 over the entries
SumFieldOr0(entries, k) ==
    IF Len(entries) = 0 THEN 0
    ELSE NumOr0(Head(entries), k) + SumFieldOr0(Tail(entries), k)

ZeroTotals == [calories |-> 0, protein |-> 0, carbs |-> 0, fat |-> 0, fiber |-> 0, hydration |-> 0]

TotalsOf(entries) ==
    LET RECURSIVE SumField(_, _)
        \* totals.k += entry.k over the entries
        SumField(es, k) ==
            IF Len(es) = 0 THEN 0
            ELSE Head(es)[k] + SumField(Tail(es), k)
    IN
    [calories |-> SumField(entries, "calories"), protein |-> SumField(entries, "protein"),
     carbs |-> SumField(entries, "carbs"), fat |-> SumField(entries, "fat"),
     fiber |-> SumFieldOr0(entries, "fiber"), hydration |-> SumFieldOr0(entries, "hydration")]

\* getTodayTotals after its load: data is what loadNutritionData returned, t the clock
getTodayTotals(data, chatId, t) ==
    IF ~HasPartition(data, chatId, Today(t)) THEN ZeroTotals
    ELSE TotalsOf(data[chatId][Today(t)])

\* getDailySummary after its loads: null, or the numbered entries and the
\* totals that the summary text shows
getDailySummary(data, chatId, t) ==
    IF ~HasPartition(data, chatId, Today(t)) THEN [null |-> TRUE]
    ELSE [null |-> FALSE, entries |-> data[chatId][Today(t)],
          totals |-> getTodayTotals(data, chatId, t)]

\* addFoodEntry without the push: the partition is created, the entry is not added
addFoodEntryNoPush(data, chatId, nutrition, t, uid) ==
    PutPartition(data, chatId, Today(t), Partition(data, chatId, Today(t)))

\* addFoodEntry assigning instead of pushing: the new entry replaces the partition
addFoodEntryOverwrite(data, chatId, nutrition, t, uid) ==
    PutPartition(data, chatId, Today(t),
        <<Spread([timestamp |-> t, uid |-> uid], nutrition)>>)

\* addFoodEntry with unshift in place of push: the new entry goes first
addFoodEntryUnshift(data, chatId, nutrition, t, uid) ==
    PutPartition(data, chatId, Today(t),
        <<Spread([timestamp |-> t, uid |-> uid], nutrition)>>
            \o Partition(data, chatId, Today(t)))

\* addFoodEntry after its load: the data it saves.  uid is a history field that
\* names the entry in the properties; no operation of the model reads it.
addFoodEntry(data, chatId, nutrition, t, uid) ==
    PutPartition(data, chatId, Today(t),
        Append(Partition(data, chatId, Today(t)),
               Spread([timestamp |-> t, uid |-> uid], nutrition)))

\* removeFoodEntryByIndex with entries.pop() in place of entries.splice(index, 1)
removeFoodEntryByIndexPop(data, chatId, index, t) ==
    IF ~HasPartition(data, chatId, Today(t))
    THEN [ok |-> FALSE, data |-> data, removed |-> EmptyObj]
    ELSE LET entries == data[chatId][Today(t)] IN
         IF index < 0 \/ index >= Len(entries)
         THEN [ok |-> FALSE, data |-> data, removed |-> EmptyObj]
         ELSE [ok |-> TRUE,
               data |-> PutPartition(data, chatId, Today(t), SpliceOut(entries, Len(entries) - 1)),
               removed |-> entries[Len(entries)]]

\* removeFoodEntryByIndex after its load: ok is FALSE for `return false`
removeFoodEntryByIndex(data, chatId, index, t) ==
    IF ~HasPartition(data, chatId, Today(t))
    THEN [ok |-> FALSE, data |-> data, removed |-> EmptyObj]
    ELSE LET entries == data[chatId][Today(t)] IN
         IF index < 0 \/ index >= Len(entries)
         THEN [ok |-> FALSE, data |-> data, removed |-> EmptyObj]
         ELSE [ok |-> TRUE,
               data |-> PutPartition(data, chatId, Today(t), SpliceOut(entries, index)),
               removed |-> entries[index + 1]]

\* ------------------------------------------------ the association index
\* saveMessageAssociation that keeps an association the message id already has
saveMessageAssociationKeepFirst(associations, messageId, chatId, nutritionData, t) ==
    IF Has(associations, messageId) THEN associations
    ELSE Put(associations, messageId,
             [chatId |-> chatId, nutritionData |-> nutritionData, timestamp |-> t])

\* saveMessageAssociation after its load: the associations it saves
saveMessageAssociation(associations, messageId, chatId, nutritionData, t) ==
    Put(associations, messageId,
        [chatId |-> chatId, nutritionData |-> nutritionData, timestamp |-> t])

\* updateNutritionByMessageId after its two loads, for an existing association:
\* ok is its return value, data what it saves when ok
updateNutritionByMessageId(association, data, updatedNutritionData, t) ==
    LET \* the findIndex predicate of updateNutritionByMessageId
        MatchesSnapshot(entry, snapshot) ==
            /\ FieldEq(entry, snapshot, "food_name")
            /\ FieldEq(entry, snapshot, "calories")
            /\ FieldEq(entry, snapshot, "protein")
            /\ FieldEq(entry, snapshot, "carbs")
            /\ FieldEq(entry, snapshot, "fat")
    IN
    IF ~HasPartition(data, association.chatId, Today(t))
    THEN [ok |-> FALSE, data |-> data]
    ELSE LET entries == data[association.chatId][Today(t)]
             Match(e) == MatchesSnapshot(e, association.nutritionData)
             index == FirstIndex([j \in 1..Len(entries) |-> Match(entries[j])])
         IN  IF index = -1 THEN [ok |-> FALSE, data |-> data]
             ELSE [ok |-> TRUE,
                   data |-> PutPartition(data, association.chatId, Today(t),
                               [entries EXCEPT ![index + 1] =
                                   Spread(Spread(entries[index + 1], updatedNutritionData),
                                          [timestamp |-> t])])]

\* handleRemovalCommand between its load of the ledger and its save:
\* ok is FALSE where the code throws
RemoveByAssociation(association, data, t) ==
    LET \* the search loop of handleRemovalCommand: 0-based index, -1 if none
        RemovalIndex(entries, a) ==
            LET Match(e) == /\ FieldEq(e, a.nutritionData, "timestamp")
                            /\ FieldEq(e, a.nutritionData, "food_name")
            IN  FirstIndex([j \in 1..Len(entries) |-> Match(entries[j])])
    IN
    IF ~HasPartition(data, association.chatId, Today(t))
    THEN [ok |-> FALSE, data |-> data, removed |-> EmptyObj]
    ELSE LET entries == data[association.chatId][Today(t)]
             entryIndex == RemovalIndex(entries, association)
         IN  IF entryIndex = -1
             THEN [ok |-> FALSE, data |-> data, removed |-> EmptyObj]
             ELSE [ok |-> TRUE,
                   data |-> PutPartition(data, association.chatId, Today(t),
                                         SpliceOut(entries, entryIndex)),
                   removed |-> entries[entryIndex + 1]]

\* ------------------------------------------------ the correction parser
Lowers == <<"a", "b", "c", "d", "e", "f", "g", "h", "i", "j", "k", "l", "m",
            "n", "o", "p", "q", "r", "s", "t", "u", "v", "w", "x", "y", "z">>
Uppers == <<"A", "B", "C", "D", "E", "F", "G", "H", "I", "J", "K", "L", "M",
            "N", "O", "P", "Q", "R", "S", "T", "U", "V", "W", "X", "Y", "Z">>
DigitChars == <<"0", "1", "2", "3", "4", "5", "6", "7", "8", "9">>

IndexIn(seq, c) == CHOOSE j \in 1..Len(seq) : seq[j] = c
IsLower(c) == \E j \in 1..Len(Lowers) : Lowers[j] = c
IsUpper(c) == \E j \in 1..Len(Uppers) : Uppers[j] = c

\* s.toLowerCase()
ToLower(s) ==
    LET LowerChar(c) == IF IsUpper(c) THEN Lowers[IndexIn(Uppers, c)] ELSE c
    IN
              [j \in 1..Len(s) |-> LowerChar(s[j])]

\* s.substring(a - 1, b) for 1-based a..b, empty when a > b
Sub(s, a, b) == [j \in 1..(IF b >= a THEN b - a + 1 ELSE 0) |-> s[a + j - 1]]

\* the character classes the parser uses: \d, \s, \W and the digit 0
InClass(c, cls) ==
    LET IsDigit(ch) == \E j \in 1..Len(DigitChars) : DigitChars[j] = ch
        \* \w
        IsWord(ch) == IsLower(ch) \/ IsUpper(ch) \/ IsDigit(ch) \/ ch = "_"
        \* \s
        IsSpace(ch) == ch = " "
    IN
    CASE cls = "digit" -> IsDigit(c)
      [] cls = "space" -> IsSpace(c)
      [] cls = "nonword" -> ~IsWord(c)
      [] cls = "zero" -> c = "0"

\* number of characters of class cls in s from position i on, and from i back
RECURSIVE LeadRun(_, _, _)
LeadRun(s, i, cls) ==
    IF i <= Len(s) /\ InClass(s[i], cls) THEN 1 + LeadRun(s, i + 1, cls) ELSE 0
RECURSIVE TrailRun(_, _, _)
TrailRun(s, i, cls) ==
    IF i >= 1 /\ InClass(s[i], cls) THEN 1 + TrailRun(s, i - 1, cls) ELSE 0

\* s without its leading and trailing characters of class cls
Strip(s, cls) ==
    LET a == LeadRun(s, 1, cls)
    IN  IF a = Len(s) THEN <<>> ELSE Sub(s, a + 1, Len(s) - TrailRun(s, Len(s), cls))

\* s.trim()
Trim(s) == Strip(s, "space")

\* whether p occurs in s at 1-based position i
PrefixAt(s, i, p) == /\ i + Len(p) - 1 <= Len(s)
                     /\ \A j \in 1..Len(p) : s[i + j - 1] = p[j]

\* s.includes(p)
Includes(s, p) == \E i \in 1..(Len(s) + 1) : PrefixAt(s, i, p)

RECURSIVE DigitsValue(_)
\* the decimal value of a run of digits
DigitsValue(ds) ==
    LET DigitVal(c) == IndexIn(DigitChars, c) - 1
    IN
    IF Len(ds) = 0 THEN 0
    ELSE 10 * DigitsValue(Sub(ds, 1, Len(ds) - 1)) + DigitVal(ds[Len(ds)])

\* /(\d+(?:\.\d+)?)\s*(ml|l|g|kg|oz|cup|cups|tbsp|tsp)/ tried at position i of s.
\* \d+, the fraction and \s* are greedy; giving characters back never helps,
\* since no unit starts with a digit, a dot or a space.
MatchAt(s, i) ==
    LET \* the alternation (ml|l|g|kg|oz|cup|cups|tbsp|tsp), in the order the regex tries it
        Units == << <<"m", "l">>, <<"l">>, <<"g">>, <<"k", "g">>, <<"o", "z">>,
                    <<"c", "u", "p">>, <<"c", "u", "p", "s">>,
                    <<"t", "b", "s", "p">>, <<"t", "s", "p">> >>
        n1   == LeadRun(s, i, "digit")
        dot  == i + n1
        n2   == IF dot <= Len(s) /\ s[dot] = "." THEN LeadRun(s, dot + 1, "digit") ELSE 0
        numEnd == IF n2 > 0 THEN dot + n2 ELSE dot - 1
        sp   == LeadRun(s, numEnd + 1, "space")
        upos == numEnd + 1 + sp
        hit  == {u \in 1..Len(Units) : PrefixAt(s, upos, Units[u])}
    IN  IF n1 = 0 \/ hit = {} THEN [ok |-> FALSE]
        ELSE LET u == CHOOSE x \in hit : \A y \in hit : x <= y
             IN  [ok |-> TRUE, start |-> i, end |-> upos + Len(Units[u]) - 1,
                  int |-> Sub(s, i, i + n1 - 1),
                  frac |-> IF n2 > 0 THEN Sub(s, dot + 1, dot + n2) ELSE <<>>,
                  unit |-> Units[u]]

\* lowerInput.match(...): the leftmost match, ok FALSE for null
ServingSizeMatch(s) ==
    LET at == {i \in 1..Len(s) : MatchAt(s, i).ok}
    IN  IF at = {} THEN [ok |-> FALSE]
        ELSE MatchAt(s, CHOOSE i \in at : \A j \in at : i <= j)

RECURSIVE NatToChars(_)
\* String(n) for a natural number n
NatToChars(n) ==
    IF n < 10 THEN <<DigitChars[n + 1]>>
    ELSE NatToChars(n \div 10) \o <<DigitChars[(n % 10) + 1]>>

\* the fraction n / d
Frac(n, d) == [n |-> n, d |-> d]

\* calculateServingMultiplier: unitMultipliers[unit] || 1, quantity = q.n / q.d
calculateServingMultiplier(q, unit) ==
    LET m == CASE unit = <<"m", "l">> -> Frac(q.n, q.d * 250)
               [] unit = <<"l">> -> Frac(q.n * 4, q.d)
               [] unit = <<"g">> -> Frac(q.n, q.d * 100)
               [] unit = <<"k", "g">> -> Frac(q.n * 10, q.d)
               [] unit = <<"o", "z">> -> Frac(q.n, q.d * 4)
               [] unit = <<"c", "u", "p">> -> q
               [] unit = <<"c", "u", "p", "s">> -> q
               [] unit = <<"t", "b", "s", "p">> -> Frac(q.n, q.d * 16)
               [] unit = <<"t", "s", "p">> -> Frac(q.n, q.d * 48)
               [] OTHER -> Frac(1, 1)
    IN  IF m.n = 0 THEN Frac(1, 1) ELSE m

\* foodDatabase without its last row, in source order; protein, carbs, fat in tenths
foodDatabase == <<
    [key |-> <<"C", "o", "f", "f", "e", "e">>, calories |-> 5, protein |-> 3, carbs |-> 0, fat |-> 0],
    [key |-> <<"C", "o", "k", "e">>, calories |-> 140, protein |-> 0, carbs |-> 390, fat |-> 0],
    [key |-> <<"C", "o", "l", "a">>, calories |-> 140, protein |-> 0, carbs |-> 390, fat |-> 0],
    [key |-> <<"A", "p", "p", "l", "e">>, calories |-> 95, protein |-> 5, carbs |-> 250, fat |-> 3],
    [key |-> <<"B", "a", "n", "a", "n", "a">>, calories |-> 105, protein |-> 13, carbs |-> 270, fat |-> 4],
    [key |-> <<"O", "r", "a", "n", "g", "e">>, calories |-> 62, protein |-> 12, carbs |-> 150, fat |-> 2],
    [key |-> <<"B", "r", "e", "a", "d">>, calories |-> 80, protein |-> 30, carbs |-> 150, fat |-> 10],
    [key |-> <<"R", "i", "c", "e">>, calories |-> 205, protein |-> 40, carbs |-> 450, fat |-> 4],
    [key |-> <<"C", "h", "i", "c", "k", "e", "n">>, calories |-> 165, protein |-> 310, carbs |-> 0, fat |-> 36],
    [key |-> <<"B", "e", "e", "f">>, calories |-> 250, protein |-> 260, carbs |-> 0, fat |-> 150],
    [key |-> <<"F", "i", "s", "h">>, calories |-> 120, protein |-> 220, carbs |-> 0, fat |-> 30],
    [key |-> <<"S", "a", "l", "a", "d">>, calories |-> 15, protein |-> 10, carbs |-> 30, fat |-> 2],
    [key |-> <<"P", "a", "s", "t", "a">>, calories |-> 200, protein |-> 70, carbs |-> 430, fat |-> 10],
    [key |-> <<"P", "i", "z", "z", "a">>, calories |-> 285, protein |-> 120, carbs |-> 360, fat |-> 100],
    [key |-> <<"B", "u", "r", "g", "e", "r">>, calories |-> 295, protein |-> 150, carbs |-> 300, fat |-> 120],
    [key |-> <<"S", "a", "n", "d", "w", "i", "c", "h">>, calories |-> 220, protein |-> 90, carbs |-> 250, fat |-> 90],
    [key |-> <<"M", "i", "l", "k">>, calories |-> 103, protein |-> 80, carbs |-> 120, fat |-> 24],
    [key |-> <<"C", "h", "e", "e", "s", "e">>, calories |-> 113, protein |-> 70, carbs |-> 10, fat |-> 90],
    [key |-> <<"Y", "o", "g", "u", "r", "t">>, calories |-> 59, protein |-> 100, carbs |-> 36, fat |-> 4],
    [key |-> <<"I", "c", "e", " ", "c", "r", "e", "a", "m">>, calories |-> 207, protein |-> 35, carbs |-> 240, fat |-> 110],
    [key |-> <<"C", "a", "k", "e">>, calories |-> 237, protein |-> 23, carbs |-> 330, fat |-> 100],
    [key |-> <<"C", "o", "o", "k", "i", "e">>, calories |-> 78, protein |-> 9, carbs |-> 100, fat |-> 40],
    [key |-> <<"C", "h", "o", "c", "o", "l", "a", "t", "e">>, calories |-> 155, protein |-> 15, carbs |-> 150, fat |-> 90],
    [key |-> <<"W", "a", "t", "e", "r">>, calories |-> 0, protein |-> 0, carbs |-> 0, fat |-> 0],
    [key |-> <<"T", "e", "a">>, calories |-> 2, protein |-> 0, carbs |-> 5, fat |-> 0],
    [key |-> <<"J", "u", "i", "c", "e">>, calories |-> 110, protein |-> 5, carbs |-> 260, fat |-> 3],
    [key |-> <<"S", "o", "d", "a">>, calories |-> 140, protein |-> 0, carbs |-> 390, fat |-> 0],
    [key |-> <<"B", "e", "e", "r">>, calories |-> 153, protein |-> 16, carbs |-> 130, fat |-> 0],
    [key |-> <<"W", "i", "n", "e">>, calories |-> 125, protein |-> 1, carbs |-> 38, fat |-> 0]
>>

\* foodDatabase['Default']
DefaultNutrition == [key |-> <<"D", "e", "f", "a", "u", "l", "t">>, calories |-> 100, protein |-> 50, carbs |-> 150, fat |-> 30]

\* the one element of a one-element set; {F(x) : x \in {e}} computes e once
Only(S) == CHOOSE x \in S : TRUE

\* getBaseNutrition that takes a row only if its key is the whole name
getBaseNutritionExact(foodName) ==
    LET rows == Append(foodDatabase, DefaultNutrition)
        hit == {r \in 1..Len(rows) : ToLower(rows[r].key) = ToLower(foodName)}
    IN  IF hit = {} THEN DefaultNutrition
        ELSE rows[CHOOSE r \in hit : \A x \in hit : r <= x]

\* getBaseNutrition that falls back to the first row of the table
getBaseNutritionFirstRow(foodName) ==
    LET rows == Append(foodDatabase, DefaultNutrition)
        hit == {r \in 1..Len(rows) : Includes(ToLower(foodName), ToLower(rows[r].key))}
    IN  IF hit = {} THEN foodDatabase[1]
        ELSE rows[CHOOSE r \in hit : \A x \in hit : r <= x]

\* getBaseNutrition: the loop over Object.entries(foodDatabase), of which
\* 'Default' is the last row, and the value returned after the loop
getBaseNutrition(foodName) ==
    LET \* the first row whose lower-cased key is a substring of the lower-cased name
        FirstRow(rows, lowerName) ==
            LET hit == {r \in 1..Len(rows) : Includes(lowerName, ToLower(rows[r].key))}
            IN  IF hit = {} THEN DefaultNutrition
                ELSE rows[CHOOSE r \in hit : \A x \in hit : r <= x]
    IN
    Only({FirstRow(Append(foodDatabase, DefaultNutrition), n) : n \in {ToLower(foodName)}})

\* estimateNutrition.  toFixed(1) is taken as rounding the exact product to one
\* decimal, half up (the code rounds the binary double of the product).
estimateNutrition(foodName, q, unit) ==
    LET \* Math.round(v * m) for v >= 0 and a fraction m >= 0: half rounds up
        RoundScaled(v, m) == (2 * v * m.n + m.d) \div (2 * m.d)
        Scaled(baseNutrition, multiplier) ==
            [calories |-> RoundScaled(baseNutrition.calories, multiplier),
             protein |-> RoundScaled(baseNutrition.protein, multiplier),
             carbs |-> RoundScaled(baseNutrition.carbs, multiplier),
             fat |-> RoundScaled(baseNutrition.fat, multiplier)]
    IN
    Only({Scaled(b, m) : b \in {getBaseNutrition(foodName)},
                         m \in {calculateServingMultiplier(q, unit)}})

\* the food name: the lower-cased input without the matched text, trimmed,
\* stripped of non-word characters at both ends, 'Unknown food' if nothing is
\* left, its first character in upper case
FoodNameOf(lowerInput, m) ==
    LET UpperChar(c) == IF IsLower(c) THEN Uppers[IndexIn(Lowers, c)] ELSE c
        UnknownFood == <<"U", "n", "k", "n", "o", "w", "n", " ", "f", "o", "o", "d">>
        \* s.replace(/^\W+|\W+$/g, '')
        StripNonWord(s) == Strip(s, "nonword")
        removed == IF m.ok
                   THEN Trim(Sub(lowerInput, 1, m.start - 1)
                             \o Sub(lowerInput, m.end + 1, Len(lowerInput)))
                   ELSE lowerInput
    IN  Only({ <<UpperChar(cleaned[1])>> \o Sub(cleaned, 2, Len(cleaned)) :
               cleaned \in {Only({IF Len(x) = 0 THEN UnknownFood ELSE x :
                                  x \in {StripNonWord(removed)}})} })

\* the object parseUserCorrection returns, from the name and the match
CorrectionOf(foodName, m) ==
    LET RECURSIVE Pow10(_)
        Pow10(n) == IF n = 0 THEN 1 ELSE 10 * Pow10(n - 1)
        StandardServing == <<"S", "t", "a", "n", "d", "a", "r", "d", " ", "s", "e", "r", "v", "i", "n", "g">>
        ServingUnit == <<"s", "e", "r", "v", "i", "n", "g">>
        \* `${quantity}` for quantity = parseFloat(int.frac): no leading zeros, no
        \* trailing zeros in the fraction, no dot when the fraction is zero
        QuantityChars(int, frac) ==
            LET f == Sub(frac, 1, Len(frac) - TrailRun(frac, Len(frac), "zero"))
            IN  NatToChars(DigitsValue(int)) \o (IF Len(f) = 0 THEN <<>> ELSE <<".">> \o f)
        quantity == IF m.ok THEN Frac(DigitsValue(m.int \o m.frac), Pow10(Len(m.frac)))
                    ELSE Frac(1, 1)
        unit == IF m.ok THEN m.unit ELSE ServingUnit
        servingSize == IF m.ok THEN QuantityChars(m.int, m.frac) \o m.unit
                       ELSE StandardServing
    IN  Only({ [food_name |-> foodName,
                calories |-> nutritionEstimates.calories,
                protein |-> nutritionEstimates.protein,
                carbs |-> nutritionEstimates.carbs,
                fat |-> nutritionEstimates.fat,
                serving_size |-> servingSize] :
               nutritionEstimates \in {estimateNutrition(foodName, quantity, unit)} })

ParseLowered(lowerInput) ==
    Only({ Only({CorrectionOf(foodName, m) : foodName \in {FoodNameOf(lowerInput, m)}}) :
           m \in {ServingSizeMatch(lowerInput)} })

parseUserCorrection(input) ==
    Only({ParseLowered(lowerInput) : lowerInput \in {Trim(ToLower(input))}})

\* ------------------------------------------------ encrypt and decrypt
HexChars == <<"0", "1", "2", "3", "4", "5", "6", "7", "8", "9", "a", "b", "c", "d", "e", "f">>

ByteOf(hi, lo) ==
    LET HexVal(c) == IndexIn(HexChars, c) - 1
    IN
                  16 * HexVal(hi) + HexVal(lo)

\* the characters of the names, with their byte: the position in this list
Latin == Lowers \o Uppers \o DigitChars \o <<" ", "_", ":">>

IV_LENGTH == 16

\* The cipher stands for aes-256-cbc with a valid key: each byte of the
\* output is the plaintext byte combined with the byte before it, the first
\* with the IV, so that the output depends on the IV and can be inverted
\* with it.
RECURSIVE CipherHex(_, _)
CipherHex(text, prev) ==
    LET \* b.toString('hex') of one byte, and the byte of two hex digits
        HexOf(b) == <<HexChars[(b \div 16) + 1], HexChars[(b % 16) + 1]>>
        CodeOf(c) == IndexIn(Latin, c)
    IN
    IF Len(text) = 0 THEN <<>>
    ELSE LET b == (CodeOf(Head(text)) + prev) % 256
         IN  HexOf(b) \o CipherHex(Tail(text), b)

\* the bytes the decipher gives for hex text, 0 where a byte is no character
RECURSIVE DecipherBytes(_, _)
DecipherBytes(hex, prev) ==
    IF Len(hex) = 0 THEN <<>>
    ELSE LET b == ByteOf(hex[1], hex[2])
         IN  <<(b - prev + 256) % 256>> \o DecipherBytes(Sub(hex, 3, Len(hex)), b)

\* encrypt(text), iv being crypto.randomBytes(IV_LENGTH) in hex, ok whether
\* createCipheriv accepts ENCRYPTION_KEY; the catch block returns the text
encrypt(text, iv, ok) ==
    IF Len(text) = 0 THEN text
    ELSE IF ~ok THEN text
    ELSE iv \o <<":">> \o CipherHex(text, ByteOf(iv[1], iv[2]))

\* decrypt(text): the catch block returns the text when the key, the IV or
\* the encrypted part is not what the decipher accepts
decrypt(text, ok) ==
    LET AllHex(s) ==
            LET IsHex(c) == \E j \in 1..Len(HexChars) : HexChars[j] = c
            IN
                     \A j \in 1..Len(s) : IsHex(s[j])
        \* text.split(':'): the position of the first ':'
        FirstColon(s) == CHOOSE i \in 1..Len(s) : s[i] = ":" /\ \A k \in 1..(i - 1) : s[k] # ":"
    IN
    IF Len(text) = 0 \/ ~Includes(text, <<":">>) THEN text
    ELSE LET j == FirstColon(text)
             iv == Sub(text, 1, j - 1)
             encryptedText == Sub(text, j + 1, Len(text))
             wellFormed == /\ ok
                           /\ Len(iv) = 2 * IV_LENGTH /\ AllHex(iv)
                           /\ Len(encryptedText) > 0 /\ Len(encryptedText) % 2 = 0
                           /\ AllHex(encryptedText)
         IN  IF ~wellFormed THEN text
             ELSE LET bytes == DecipherBytes(encryptedText, ByteOf(iv[1], iv[2]))
                  IN  IF \A i \in 1..Len(bytes) : bytes[i] \in 1..Len(Latin)
                      THEN [i \in 1..Len(bytes) |-> Latin[bytes[i]]]
                      ELSE text

\* ---------------------------------------------------------- the users
\* msg.from of the messages of a private chat, whose chat id is the user id;
\* last_name and username are optional in Telegram
Sender == [A |-> [id |-> "A", first_name |-> <<"A", "n", "n">>,
                  last_name |-> <<"L", "e", "e">>,
                  username |-> <<"a", "n", "n", "_", "l">>],
           B |-> [id |-> "B", first_name |-> <<"B", "o">>]]

\* the object the handlers pass to saveUserInfo; an undefined property is a
\* missing key
UserInfoOf(from) ==
    LET named == [firstName |-> "first_name", lastName |-> "last_name",
                  username |-> "username"]
        present == {k \in DOMAIN named : Has(from, named[k])}
    IN  [k \in present \cup {"fullName"} |->
            IF k = "fullName"
            THEN from.first_name \o (IF Has(from, "last_name")
                                     THEN <<" ">> \o from.last_name ELSE <<>>)
            ELSE from[named[k]]]

SensitiveFields == {"firstName", "lastName", "username", "fullName"}

\* the sixteen random bytes of an IV, in hex
Iv0 == [j \in 1..(2 * IV_LENGTH) |-> IF j = 2 THEN "3" ELSE "0"]
Iv1 == [j \in 1..(2 * IV_LENGTH) |-> IF j % 2 = 1 THEN "a" ELSE "7"]
\* the IVs of the four calls of encrypt: some of the draws
OneIv == {[k \in SensitiveFields |-> Iv0]}
IvChoices == OneIv \cup {[k \in SensitiveFields |-> IF k = "fullName" THEN Iv0 ELSE Iv1]}

\* saveUserInfo: the value of the key 'users' after the SET; JSON.stringify
\* drops the properties that are undefined
saveUserInfo(usersData, userId, userInfo, iv, ok, t) ==
    LET kept == {k \in DOMAIN userInfo : Len(userInfo[k]) > 0}
        encryptedUserInfo ==
            [k \in kept \cup {"lastSeen"} |->
                IF k = "lastSeen" THEN t
                ELSE IF k \in SensitiveFields THEN encrypt(userInfo[k], iv[k], ok)
                ELSE userInfo[k]]
    IN  Put(usersData, userId, encryptedUserInfo)

\* ------------------------------------------------------------- inputs
\* what analyzeFood returns: the JSON object the prompt asks for, which has no
\* timestamp; fiber and hydration may be missing (the code reads them with || 0)
Pizza == [food_name |-> <<"P", "i", "z", "z", "a">>, calories |-> 300, protein |-> 120,
          carbs |-> 360, fat |-> 100, fiber |-> 25, hydration |-> 500,
          serving_size |-> <<"1", " ", "s", "l", "i", "c", "e">>, confidence |-> "high"]
Toast == [food_name |-> <<"T", "o", "a", "s", "t">>, calories |-> 80, protein |-> 30,
          carbs |-> 150, fat |-> 10,
          serving_size |-> <<"2", " ", "s", "l", "i", "c", "e", "s">>, confidence |-> "medium"]
Analyses == {Pizza, Toast}

BoardMeals ==
    LET \* analyses whose totals the leaderboard is documented for: a day that meets
        \* the default goals, one at 90% of each, two meals that add up to
        \* 1800 kcal, 140 g, 230 g, 65 g, 20 g and 1900 ml, and one of zeros
        MealOf(name, cal, p, c, f, fi, h) ==
            [food_name |-> name, calories |-> cal, protein |-> p, carbs |-> c, fat |-> f,
             fiber |-> fi, hydration |-> h, serving_size |-> <<"1">>, confidence |-> "high"]
        NinetyMeal == MealOf(<<"N", "i", "n", "e">>, 1800, 1350, 2250, 630, 225, 1800)
        GoalMeal == MealOf(<<"F", "u", "l", "l">>, 2000, 1500, 2500, 700, 250, 2000)
        Nothing == MealOf(<<"I", "c", "e">>, 0, 0, 0, 0, 0, 0)
        Lunch == MealOf(<<"L", "u", "n", "c", "h">>, 1000, 700, 1200, 300, 100, 1000)
        Dinner == MealOf(<<"D", "i", "n", "n", "e", "r">>, 800, 700, 1100, 350, 100, 900)
    IN
              {GoalMeal, NinetyMeal, Lunch, Dinner, Nothing, Toast}

\* the reply texts of a correction: the two examples of the user guide
CokeText == <<"5", "0", "0", "m", "l", " ", "c", "o", "k", "e">>
CoffeeText == <<"c", "o", "f", "f", "e", "e", " ", "2", "0", "0", "m", "l">>
\* a text in capitals whose food name only contains the key of a row
DietCokeText == <<"D", "i", "e", "t", " ", "C", "O", "K", "E", " ", "1", "2", "5", "M", "L">>
CorrectionTexts == {CokeText, CoffeeText, DietCokeText}

\* reply texts with a removal keyword, one of them capitalised
RemoveText == <<"r", "e", "m", "o", "v", "e">>
DeleteText == <<"D", "e", "l", "e", "t", "e">>
ReplyTexts ==
    LET RemovalTexts == {RemoveText, DeleteText}
    IN
              CorrectionTexts \cup RemovalTexts

\* the command text '/erase N'
EraseCommand == [n \in 0..MaxEraseArg |->
                    <<"/", "e", "r", "a", "s", "e", " ">> \o NatToChars(n)]
EraseCommands == {EraseCommand[n] : n \in 0..MaxEraseArg}

\* removalKeywords
removalKeywords == { <<"r", "e", "m", "o", "v", "e">>, <<"d", "e", "l", "e", "t", "e">>,
                     <<"e", "r", "a", "s", "e">>, <<"c", "a", "n", "c", "e", "l">> }


\* isRemovalCommand for a message with text
isRemovalCommand(text) == \E keyword \in removalKeywords : Includes(ToLower(text), keyword)

\* the handler's isRemovalCommand, for each reply text
IsRemoval == [x \in ReplyTexts \cup EraseCommands |-> isRemovalCommand(x)]

\* processCorrection's parseUserCorrection(msg.text), for each reply text
Correction == [x \in ReplyTexts |-> parseUserCorrection(x)]

\* the argument of /erase: none (list), a number N, or other text
EraseArgs == {[kind |-> "list", n |-> 0], [kind |-> "text", n |-> 0]}
             \cup {[kind |-> "index", n |-> n] : n \in 0..MaxEraseArg}

\* ---------------------------------------------------------- the goals
\* the key 'goals' before any SET: GET returns null
NoGoals == [set |-> FALSE]

\* the object both branches of loadGoals return when there is nothing to parse
DefaultGoals == [calories |-> 2000, protein |-> 150, carbs |-> 250, fat |-> 70,
                 fiber |-> 25, hydration |-> 2000]

\* loadGoals that takes a stored goal of 0 for a missing one
loadGoalsZeroIsUnset(stored, fails) ==
    IF fails \/ ~stored.set THEN DefaultGoals
    ELSE [k \in DOMAIN stored.value |->
             IF stored.value[k] = 0 THEN DefaultGoals[k] ELSE stored.value[k]]

\* loadGoals: stored is the value of the key, fails says that the GET threw
loadGoals(stored, fails) ==
    IF fails THEN DefaultGoals
    ELSE IF ~stored.set THEN DefaultGoals
    ELSE stored.value

\* saveGoals: the value of the key after the SET; JSON.stringify and
\* JSON.parse of an object of six integers give the same six integers back
saveGoals(g) == [set |-> TRUE, value |-> g]

\* six numbers a user enters: goals of their own, and goals with zeros
OwnGoals == [calories |-> 1800, protein |-> 120, carbs |-> 200, fat |-> 60,
             fiber |-> 30, hydration |-> 2500]
ZeroGoals == [calories |-> 0, protein |-> 150, carbs |-> 250, fat |-> 70,
              fiber |-> 0, hydration |-> 2000]

\* -------------------------------------------------------------- tasks
IdleTask == [pc |-> "idle", kind |-> "none", chat |-> "A", mid |-> 0, arg |-> 0,
             nutrition |-> EmptyObj, data |-> EmptyObj, associations |-> EmptyObj,
             outcome |-> "none", totals |-> ZeroTotals, removed |-> EmptyObj,
             uid |-> 0, loadVer |-> 0, saveVer |-> 0, readVer |-> 0,
             addDay |-> 0, reportDay |-> 0, startDay |-> 0, live |-> FALSE, again |-> FALSE,
             text |-> <<>>, attempts |-> 0, twin |-> FALSE,
             queue |-> <<>>, sent |-> {}, failed |-> {}, goals |-> EmptyObj,
             readFailed |-> FALSE, users |-> EmptyObj, scores |-> EmptyObj,
             board |-> <<>>, progress |-> EmptyObj, answers |-> <<>>, forwarded |-> 0]

\* loadNutritionData / loadMessageAssociations: the parsed value of the key
\* ({} for a key never set, which is how both stores start)
loadNutritionData == ledger
loadMessageAssociations == assoc

\* a task slot is free before its first handler and after a handler returned
\* (pc "done": its locals stay readable until the slot is taken again);
\* slots are interchangeable, so an event takes the lowest free one
Idle(t) == tasks[t].pc \in {"idle", "done"}
Quiet == \A t \in Tasks : Idle(t)
CanStart(t) == /\ Idle(t)
               /\ \A u \in Tasks : u < t => ~Idle(u)
               /\ events < MaxEvents

\* ---- history, read by the properties only
\* the uids of the entries of a partition
Uids(entries) == {entries[i].uid : i \in 1..Len(entries)}

\* a reply in chatId to message m meets a live entry: m is an analysis message
\* of this chat, its association is recorded, and the entry it reported is in
\* the chat's partition of today
Live(chatId, m) ==
    /\ Has(reported, <<chatId, m>>)
    /\ reported[<<chatId, m>>] > 0
    /\ Has(assoc, m)
    /\ assoc[m].chatId = chatId
    /\ reported[<<chatId, m>>] \in Uids(Partition(ledger, chatId, Today(now)))

\* appendLog after nutrition was appended to, or an entry removed from or
\* succeeded in, the partition of chatId and day
LogOf(chatId, day) ==
    IF Has(appendLog, <<chatId, day>>) THEN appendLog[<<chatId, day>>]
    ELSE [sum |-> ZeroTotals, pure |-> TRUE]
LogTouch(chatId, day) ==
    Put(appendLog, <<chatId, day>>, [LogOf(chatId, day) EXCEPT !.pure = FALSE])

\* a handler begins: its locals
Begin(kind, chatId) == [IdleTask EXCEPT !.kind = kind, !.chat = chatId]

\* message ids are unique within a chat and grow: a new bot message gets the
\* lowest id the chat has not used (the same id may be in use in another chat)
FreeIds(chatId) == {m \in MsgIds : ~Has(reported, <<chatId, m>>)}
NewMessageId(chatId) == CHOOSE m \in FreeIds(chatId) : \A x \in FreeIds(chatId) : m <= x

Init ==
    /\ now = [day |-> 0, ms |-> 0]
    /\ ledger = EmptyObj
    /\ assoc = EmptyObj
    /\ tasks = [t \in Tasks |-> IdleTask]
    /\ events = 0
    /\ nextUid = 0
    /\ reported = EmptyObj
    /\ ver = 0
    /\ succeeded = {}
    /\ appendLog = EmptyObj
    /\ goals = NoGoals
    /\ users = EmptyObj
    /\ keyOk = TRUE
    /\ listeners = <<>>

\* midnight (UTC) passes
Tick ==
    /\ now.day < MaxDay
    /\ now' = [day |-> now.day + 1, ms |-> now.ms + 1]
    /\ UNCHANGED <<ledger, assoc, tasks, events, nextUid, reported, ver, succeeded, appendLog, goals,
                  users, keyOk, listeners>>

\* ------------------------------------------------- bot.on('photo')
\* 'Analyzing your food...', download, analyzeFood returns n; addFoodEntry
\* issues its load
PhotoStart(t, chatId, n) ==
    /\ CanStart(t)
    /\ FreeIds(chatId) # {}
    /\ tasks' = [tasks EXCEPT ![t] =
           [Begin("photo", chatId) EXCEPT !.pc = "ph_add", !.nutrition = n,
                !.attempts = 1,
                !.data = loadNutritionData, !.loadVer = ver]]
    /\ events' = events + 1
    /\ UNCHANGED <<now, ledger, assoc, nextUid, reported, ver, succeeded, appendLog, goals,
                  users, keyOk, listeners>>

\* a photo handler whose catch block logs a placeholder entry before it answers
PhotoFailLogged(t, chatId) ==
    /\ CanStart(t)
    /\ tasks' = [tasks EXCEPT ![t] =
           [Begin("photo", chatId) EXCEPT !.pc = "done", !.outcome = "trouble",
                !.attempts = 1]]
    /\ events' = events + 1
    /\ ledger' = addFoodEntry(ledger, chatId, EmptyObj, now, 0)
    /\ UNCHANGED <<now, assoc, nextUid, reported, ver, succeeded, appendLog, goals, users,
                  keyOk, listeners>>

\* download or analyzeFood throws: the catch block answers
PhotoFail(t, chatId) ==
    /\ CanStart(t)
    /\ tasks' = [tasks EXCEPT ![t] =
           [Begin("photo", chatId) EXCEPT !.pc = "done", !.outcome = "trouble",
                !.attempts = 1]]
    /\ events' = events + 1
    /\ UNCHANGED <<now, ledger, assoc, nextUid, reported, ver, succeeded, appendLog, goals,
                  users, keyOk, listeners>>

\* addFoodEntry: push and save
PhotoAdd(t) ==
    LET LogAppend(chatId, day, n) ==
            Put(appendLog, <<chatId, day>>,
                [LogOf(chatId, day) EXCEPT !.sum =
                    [k \in DOMAIN ZeroTotals |-> @[k] + (IF Has(n, k) THEN n[k] ELSE 0)]])
    IN
    /\ tasks[t].pc = "ph_add"
    /\ LET data == addFoodEntry(tasks[t].data, tasks[t].chat, tasks[t].nutrition,
                                now, nextUid + 1)
       IN  /\ ledger' = data
           /\ tasks' = [tasks EXCEPT ![t].pc = "ph_totals", ![t].data = data,
                            ![t].uid = nextUid + 1, ![t].saveVer = ver + 1,
                            ![t].addDay = Today(now)]
    /\ nextUid' = nextUid + 1
    /\ ver' = ver + 1
    /\ now' = Later(now)
    /\ appendLog' = LogAppend(tasks[t].chat, Today(now), tasks[t].nutrition)
    /\ UNCHANGED <<assoc, events, reported, succeeded, goals, users, keyOk, listeners>>

\* getTodayTotals issues its load
PhotoTotals(t) ==
    /\ tasks[t].pc = "ph_totals"
    /\ tasks' = [tasks EXCEPT ![t].pc = "ph_report", ![t].data = loadNutritionData,
                     ![t].readVer = ver]
    /\ UNCHANGED <<now, ledger, assoc, events, nextUid, reported, ver, succeeded, appendLog, goals,
                  users, keyOk, listeners>>

\* the totals are computed, the analysis message is sent, and
\* saveMessageAssociation issues its load
PhotoReport(t) ==
    /\ tasks[t].pc = "ph_report"
    /\ FreeIds(tasks[t].chat) # {}
    /\ tasks' = [tasks EXCEPT ![t].pc = "ph_assoc",
                     ![t].mid = NewMessageId(tasks[t].chat),
                     ![t].totals = getTodayTotals(tasks[t].data, tasks[t].chat, now),
                     ![t].reportDay = Today(now), ![t].outcome = "analysis",
                     ![t].associations = loadMessageAssociations]
    /\ reported' = Put(reported, <<tasks[t].chat, NewMessageId(tasks[t].chat)>>, tasks[t].uid)
    /\ UNCHANGED <<now, ledger, assoc, events, nextUid, ver, succeeded, appendLog, goals,
                  users, keyOk, listeners>>

\* saveMessageAssociation: set and save
PhotoAssoc(t) ==
    /\ tasks[t].pc = "ph_assoc"
    /\ LET associations == saveMessageAssociation(tasks[t].associations, tasks[t].mid,
                               tasks[t].chat, tasks[t].nutrition, now)
       IN  /\ assoc' = associations
           /\ tasks' = [tasks EXCEPT ![t].pc = "done", ![t].associations = associations]
    /\ now' = Later(now)
    /\ UNCHANGED <<ledger, events, nextUid, reported, ver, succeeded, appendLog, goals,
                  users, keyOk, listeners>>

\* ------------------------------------------- bot.on('message'): replies
\* A reply names a bot message of its chat: an analysis message, or (uid 0)
\* some other message of the bot, whose id no later analysis message can get.
ReplyTarget(chatId, m) ==
    IF Has(reported, <<chatId, m>>) THEN reported ELSE Put(reported, <<chatId, m>>, 0)

\* The handler returns at once for a message that is not a reply, and for a
\* reply whose target's sender id differs from bot.options.polling.id, a value
\* the Telegram library holds.  The reply actions below are the replies that
\* pass this test.
MessageIgnored(t, chatId) ==
    /\ CanStart(t)
    /\ tasks' = [tasks EXCEPT ![t] =
           [Begin("message", chatId) EXCEPT !.pc = "done", !.outcome = "ignored"]]
    /\ events' = events + 1
    /\ UNCHANGED <<now, ledger, assoc, nextUid, reported, ver, succeeded, appendLog, goals,
                  users, keyOk, listeners>>

\* A reply to a bot message when bot.options.polling, which the constructor
\* call sets to true, has no id: the right-hand side of the sender test throws
\* a TypeError, the handler's promise rejects and neither path runs.
MessageThrows(t, chatId) ==
    /\ CanStart(t)
    /\ tasks' = [tasks EXCEPT ![t] =
           [Begin("reply", chatId) EXCEPT !.pc = "done", !.outcome = "unhandled"]]
    /\ events' = events + 1
    /\ UNCHANGED <<now, ledger, assoc, nextUid, reported, ver, succeeded, appendLog, goals,
                  users, keyOk, listeners>>

\* the text is a removal keyword: handleRemovalCommand, saveUserInfo, and the
\* load of the associations is issued
RemoveStart(t, chatId, m, text, iv) ==
    /\ CanStart(t)
    /\ users' = saveUserInfo(users, Sender[chatId].id, UserInfoOf(Sender[chatId]), iv,
                             keyOk, now)
    /\ tasks' = [tasks EXCEPT ![t] =
           [Begin("remove", chatId) EXCEPT !.pc = "rm_check", !.mid = m, !.text = text,
                !.live = Live(chatId, m), !.startDay = Today(now),
                !.again = <<"remove", chatId, m>> \in succeeded,
                !.associations = loadMessageAssociations]]
    /\ reported' = ReplyTarget(chatId, m)
    /\ events' = events + 1
    /\ UNCHANGED <<now, ledger, assoc, nextUid, ver, succeeded, appendLog, goals, keyOk, listeners>>

\* no association: answer and return; else the load of the ledger is issued
RemoveCheck(t) ==
    /\ tasks[t].pc = "rm_check"
    /\ tasks' = IF ~Has(tasks[t].associations, tasks[t].mid)
                THEN [tasks EXCEPT ![t].pc = "done", ![t].outcome = "no_association"]
                ELSE [tasks EXCEPT ![t].pc = "rm_find", ![t].data = loadNutritionData,
                          ![t].loadVer = ver]
    /\ UNCHANGED <<now, ledger, assoc, events, nextUid, reported, ver, succeeded, appendLog, goals,
                  users, keyOk, listeners>>

\* the rest of handleRemovalCommand, one await at a time: the search with the
\* save of the ledger (or the catch block's answer), the save of the
\* associations, the load of getTodayTotals, the confirmation
RemoveFinish(t) ==
    LET \* delete o[k]  on a copy
        Del(o, k) == [x \in DOMAIN o \ {k} |-> o[x]]
    IN
    /\ tasks[t].pc \in {"rm_find", "rm_assoc", "rm_totals", "rm_report"}
    /\ LET me == tasks[t]
           r == RemoveByAssociation(me.associations[me.mid], me.data, now)
           associations == Del(me.associations, me.mid)
       IN  CASE me.pc = "rm_find" /\ ~r.ok ->
                  /\ tasks' = [tasks EXCEPT ![t].pc = "done", ![t].outcome = "remove_failed"]
                  /\ UNCHANGED <<ledger, assoc, ver, appendLog>>
             [] me.pc = "rm_find" /\ r.ok ->
                  /\ ledger' = r.data
                  /\ ver' = ver + 1
                  /\ tasks' = [tasks EXCEPT ![t].pc = "rm_assoc", ![t].data = r.data,
                                   ![t].removed = r.removed, ![t].saveVer = ver + 1]
                  /\ appendLog' = LogTouch(me.associations[me.mid].chatId, Today(now))
                  /\ UNCHANGED assoc
             [] me.pc = "rm_assoc" ->
                  /\ assoc' = associations
                  /\ tasks' = [tasks EXCEPT ![t].pc = "rm_totals",
                                   ![t].associations = associations]
                  /\ UNCHANGED <<ledger, ver, appendLog>>
             [] me.pc = "rm_totals" ->
                  /\ tasks' = [tasks EXCEPT ![t].pc = "rm_report",
                                   ![t].data = loadNutritionData, ![t].readVer = ver]
                  /\ UNCHANGED <<ledger, assoc, ver, appendLog>>
             [] me.pc = "rm_report" ->
                  /\ tasks' = [tasks EXCEPT ![t].pc = "done", ![t].outcome = "removed",
                                   ![t].totals = getTodayTotals(me.data, me.chat, now),
                                   ![t].reportDay = Today(now)]
                  /\ UNCHANGED <<ledger, assoc, ver, appendLog>>
    /\ succeeded' = IF tasks[t].pc = "rm_report"
                    THEN succeeded \cup {<<"remove", tasks[t].chat, tasks[t].mid>>}
                    ELSE succeeded
    /\ UNCHANGED <<now, events, nextUid, reported, goals, users, keyOk, listeners>>

\* any other text: processCorrection parses it, and updateNutritionByMessageId
\* issues the load of the associations
CorrectStart(t, chatId, m, text) ==
    /\ CanStart(t)
    /\ tasks' = [tasks EXCEPT ![t] =
           [Begin("correct", chatId) EXCEPT !.pc = "co_check", !.mid = m, !.text = text,
                !.live = Live(chatId, m), !.startDay = Today(now),
                !.again = <<"correct", chatId, m>> \in succeeded,
                !.nutrition = Correction[text],
                !.associations = loadMessageAssociations]]
    /\ reported' = ReplyTarget(chatId, m)
    /\ events' = events + 1
    /\ UNCHANGED <<now, ledger, assoc, nextUid, ver, succeeded, appendLog, goals, users,
                  keyOk, listeners>>

\* no association: the throw is caught and answered; else the load of the
\* ledger is issued
CorrectCheck(t) ==
    /\ tasks[t].pc = "co_check"
    /\ tasks' = IF ~Has(tasks[t].associations, tasks[t].mid)
                THEN [tasks EXCEPT ![t].pc = "done", ![t].outcome = "correction_error"]
                ELSE [tasks EXCEPT ![t].pc = "co_update", ![t].data = loadNutritionData,
                          ![t].loadVer = ver]
    /\ UNCHANGED <<now, ledger, assoc, events, nextUid, reported, ver, succeeded, appendLog, goals,
                  users, keyOk, listeners>>

\* CorrectUpdate on the ledger as it is at the save, not as the handler loaded it
CorrectUpdateFresh(t) ==
    /\ tasks[t].pc = "co_update"
    /\ LET me == tasks[t]
           r == updateNutritionByMessageId(me.associations[me.mid], ledger,
                                           me.nutrition, now)
       IN  IF r.ok
           THEN /\ ledger' = r.data
                /\ ver' = ver + 1
                /\ now' = Later(now)
                /\ tasks' = [tasks EXCEPT ![t].pc = "done", ![t].outcome = "updated",
                                 ![t].data = r.data, ![t].saveVer = ver + 1]
                /\ succeeded' = succeeded \cup {<<"correct", me.chat, me.mid>>}
                /\ appendLog' = LogTouch(me.associations[me.mid].chatId, Today(now))
           ELSE /\ tasks' = [tasks EXCEPT ![t].pc = "done", ![t].outcome = "not_found"]
                /\ UNCHANGED <<now, ledger, ver, succeeded, appendLog>>
    /\ UNCHANGED <<assoc, events, nextUid, reported, goals, users, keyOk, listeners>>

\* CorrectUpdate that also stores the corrected values as the association's snapshot
CorrectUpdateRefresh(t) ==
    /\ tasks[t].pc = "co_update"
    /\ LET me == tasks[t]
           r == updateNutritionByMessageId(me.associations[me.mid], me.data,
                                           me.nutrition, now)
       IN  IF r.ok
           THEN /\ ledger' = r.data
                /\ ver' = ver + 1
                /\ now' = Later(now)
                /\ tasks' = [tasks EXCEPT ![t].pc = "done", ![t].outcome = "updated",
                                 ![t].data = r.data, ![t].saveVer = ver + 1]
                /\ succeeded' = succeeded \cup {<<"correct", me.chat, me.mid>>}
                /\ appendLog' = LogTouch(me.associations[me.mid].chatId, Today(now))
                /\ assoc' = Put(me.associations, me.mid,
                                [me.associations[me.mid] EXCEPT
                                    !.nutritionData = Spread(@, me.nutrition)])
           ELSE /\ tasks' = [tasks EXCEPT ![t].pc = "done", ![t].outcome = "not_found"]
                /\ UNCHANGED <<now, ledger, ver, succeeded, appendLog, assoc>>
    /\ UNCHANGED <<events, nextUid, reported, goals, users, keyOk, listeners>>

\* the search; on a match the entry is replaced and the ledger saved, and the
\* confirmation follows; the reads for the edit of the analysis message change
\* nothing
CorrectUpdate(t) ==
    /\ tasks[t].pc = "co_update"
    /\ LET me == tasks[t]
           r == updateNutritionByMessageId(me.associations[me.mid], me.data,
                                           me.nutrition, now)
       IN  IF r.ok
           THEN /\ ledger' = r.data
                /\ ver' = ver + 1
                /\ now' = Later(now)
                /\ tasks' = [tasks EXCEPT ![t].pc = "done", ![t].outcome = "updated",
                                 ![t].data = r.data, ![t].saveVer = ver + 1]
                /\ succeeded' = succeeded \cup {<<"correct", me.chat, me.mid>>}
                /\ appendLog' = LogTouch(me.associations[me.mid].chatId, Today(now))
           ELSE /\ tasks' = [tasks EXCEPT ![t].pc = "done", ![t].outcome = "not_found"]
                /\ UNCHANGED <<now, ledger, ver, succeeded, appendLog>>
    /\ UNCHANGED <<assoc, events, nextUid, reported, goals, users, keyOk, listeners>>

\* ------------------------------------------------- bot.onText(/erase)
\* saveUserInfo and the handler's own load; without an argument the list (or
\* 'No food entries') is sent, with other text the 'valid entry number' answer;
\* with a number removeFoodEntryByIndex issues its load
EraseStart(t, chatId, arg, iv) ==
    /\ CanStart(t)
    /\ users' = saveUserInfo(users, Sender[chatId].id, UserInfoOf(Sender[chatId]), iv,
                             keyOk, now)
    /\ tasks' = [tasks EXCEPT ![t] =
           CASE arg.kind = "index" ->
                  [Begin("erase", chatId) EXCEPT !.pc = "er_remove", !.arg = arg.n,
                       !.data = loadNutritionData, !.loadVer = ver]
             [] arg.kind = "list" ->
                  [Begin("erase", chatId) EXCEPT !.pc = "done",
                       !.data = loadNutritionData, !.loadVer = ver,
                       !.startDay = Today(now),
                       !.outcome = IF Len(Partition(loadNutritionData, chatId, Today(now))) = 0
                                   THEN "no_entries" ELSE "listed"]
             [] OTHER ->
                  [Begin("erase", chatId) EXCEPT !.pc = "done", !.outcome = "need_number"]]
    /\ events' = events + 1
    /\ UNCHANGED <<now, ledger, assoc, nextUid, reported, ver, succeeded, appendLog, goals,
                  keyOk, listeners>>

\* '/erase N' sent as a reply to bot message m, as the list message asks: the
\* text matches the /erase pattern, so the /erase handler starts (handler t),
\* and the message is a reply, so the reply handler starts too (handler u)
\* and, the text holding 'erase', takes the removal path
EraseReply(t, u, chatId, m, n, iv) ==
    /\ CanStart(t)
    /\ users' = saveUserInfo(users, Sender[chatId].id, UserInfoOf(Sender[chatId]), iv,
                             keyOk, now)
    /\ u = t + 1
    /\ Idle(u)
    /\ IsRemoval[EraseCommand[n]]
    /\ tasks' = [tasks EXCEPT
           ![t] = [Begin("erase", chatId) EXCEPT !.pc = "er_remove", !.arg = n,
                       !.data = loadNutritionData, !.loadVer = ver, !.twin = TRUE],
           ![u] = [Begin("remove", chatId) EXCEPT !.pc = "rm_check", !.mid = m,
                       !.text = EraseCommand[n],
                       !.live = Live(chatId, m), !.startDay = Today(now),
                       !.again = <<"remove", chatId, m>> \in succeeded,
                       !.associations = loadMessageAssociations, !.twin = TRUE]]
    /\ reported' = ReplyTarget(chatId, m)
    /\ events' = events + 1
    /\ UNCHANGED <<now, ledger, assoc, nextUid, ver, succeeded, appendLog, goals, keyOk, listeners>>

\* removeFoodEntryByIndex(chatId, N - 1): splice and save, or `return false`
EraseRemove(t) ==
    /\ tasks[t].pc = "er_remove"
    /\ LET me == tasks[t]
           r == removeFoodEntryByIndex(me.data, me.chat, me.arg - 1, now)
       IN  IF r.ok
           THEN /\ ledger' = r.data
                /\ ver' = ver + 1
                /\ tasks' = [tasks EXCEPT ![t].pc = "er_totals", ![t].data = r.data,
                                 ![t].removed = r.removed, ![t].saveVer = ver + 1]
                /\ appendLog' = LogTouch(me.chat, Today(now))
           ELSE /\ tasks' = [tasks EXCEPT ![t].pc = "done", ![t].outcome = "invalid_number"]
                /\ UNCHANGED <<ledger, ver, appendLog>>
    /\ UNCHANGED <<now, assoc, events, nextUid, reported, succeeded, goals, users,
                  keyOk, listeners>>

\* getTodayTotals issues its load
EraseTotals(t) ==
    /\ tasks[t].pc = "er_totals"
    /\ tasks' = [tasks EXCEPT ![t].pc = "er_report", ![t].data = loadNutritionData,
                     ![t].readVer = ver]
    /\ UNCHANGED <<now, ledger, assoc, events, nextUid, reported, ver, succeeded, appendLog, goals,
                  users, keyOk, listeners>>

\* the totals are computed and the confirmation is sent
EraseReport(t) ==
    /\ tasks[t].pc = "er_report"
    /\ tasks' = [tasks EXCEPT ![t].pc = "done", ![t].outcome = "erased",
                     ![t].totals = getTodayTotals(tasks[t].data, tasks[t].chat, now),
                     ![t].reportDay = Today(now)]
    /\ UNCHANGED <<now, ledger, assoc, events, nextUid, reported, ver, succeeded, appendLog, goals,
                  users, keyOk, listeners>>

\* ------------------------------------------------- goals and progress
\* the manual goal listener got six numbers: saveGoals and the confirmation
ManualGoals(t, chatId, g) ==
    /\ CanStart(t)
    /\ goals' = saveGoals(g)
    /\ tasks' = [tasks EXCEPT ![t] =
           [Begin("goals", chatId) EXCEPT !.pc = "done", !.outcome = "goals_updated",
                !.goals = g]]
    /\ events' = events + 1
    /\ UNCHANGED <<now, ledger, assoc, nextUid, reported, ver, succeeded, appendLog, users,
                  keyOk, listeners>>

\* the manual goal listener got something else: 'Invalid format'
ManualGoalsInvalid(t, chatId) ==
    /\ CanStart(t)
    /\ tasks' = [tasks EXCEPT ![t] =
           [Begin("goals", chatId) EXCEPT !.pc = "done", !.outcome = "invalid_format"]]
    /\ events' = events + 1
    /\ UNCHANGED <<now, ledger, assoc, nextUid, reported, ver, succeeded, appendLog, goals,
                  users, keyOk, listeners>>

\* /progress: getTodayTotals issues its load
ProgressStart(t, chatId) ==
    /\ CanStart(t)
    /\ tasks' = [tasks EXCEPT ![t] =
           [Begin("progress", chatId) EXCEPT !.pc = "pr_goals", !.data = loadNutritionData,
                !.readVer = ver]]
    /\ events' = events + 1
    /\ UNCHANGED <<now, ledger, assoc, nextUid, reported, ver, succeeded, appendLog, goals,
                  users, keyOk, listeners>>

\* Math.round((total / goal) * 100) for a total >= 0 and a goal >= 0: a
\* division by 0 gives NaN or Infinity
ProgressPercent(total, goal) ==
    IF goal = 0 THEN (IF total = 0 THEN "NaN" ELSE "Infinity")
    ELSE (200 * total + goal) \div (2 * goal)

\* the totals are computed, loadGoals reads the key (the GET throws when
\* fails), and the progress message is sent
ProgressShow(t, fails) ==
    /\ tasks[t].pc = "pr_goals"
    /\ LET totals == getTodayTotals(tasks[t].data, tasks[t].chat, now)
           g == loadGoals(goals, fails)
       IN  tasks' = [tasks EXCEPT ![t].pc = "done", ![t].outcome = "progress",
                        ![t].totals = totals,
                        ![t].reportDay = Today(now),
                        ![t].goals = g,
                        ![t].progress = [k \in DOMAIN totals |->
                                            ProgressPercent(totals[k], g[k] * 
                                                (IF k \in {"calories", "hydration"} THEN 1 ELSE 10))],
                        ![t].readFailed = fails]
    /\ UNCHANGED <<now, ledger, assoc, events, nextUid, reported, ver, succeeded, appendLog, goals,
                  users, keyOk, listeners>>

\* ------------------------------------------- cron.schedule('59 23 * * *')
\* the chat ids in the order of `for (const chatId in data)`
ChatOrder == <<"A", "B">>

\* the callback loads the ledger and starts its loop over the chats with data
CronStart(t) ==
    LET ChatIn(data, c) == Has(data, c)
    IN
    /\ CanStart(t)
    /\ LET data == loadNutritionData
           InData(c) == ChatIn(data, c)
           chats == SelectSeq(ChatOrder, InData)
       IN  tasks' = [tasks EXCEPT ![t] =
               [Begin("cron", "A") EXCEPT !.pc = IF chats = <<>> THEN "done" ELSE "cr_next",
                    !.outcome = IF chats = <<>> THEN "dispatched" ELSE "none",
                    !.data = data, !.queue = chats, !.loadVer = ver,
                    !.startDay = Today(now)]]
    /\ events' = events + 1
    /\ UNCHANGED <<now, ledger, assoc, nextUid, reported, ver, succeeded, appendLog, goals,
                  users, keyOk, listeners>>

\* one turn of the loop: getDailySummary for the next chat and, unless it is
\* null, sendMessage, which succeeds (ok) or throws into the loop's catch
CronChat(t, ok) ==
    /\ tasks[t].pc = "cr_next"
    /\ LET me == tasks[t]
           chatId == Head(me.queue)
           summary == getDailySummary(loadNutritionData, chatId, now)
           rest == Tail(me.queue)
       IN  tasks' = [tasks EXCEPT
               ![t].queue = rest,
               ![t].sent = IF ~summary.null /\ ok THEN me.sent \cup {chatId} ELSE me.sent,
               ![t].failed = IF ~summary.null /\ ~ok THEN me.failed \cup {chatId}
                             ELSE me.failed,
               ![t].pc = IF rest = <<>> THEN "done" ELSE "cr_next",
               ![t].outcome = IF rest = <<>> THEN "dispatched" ELSE "none"]
    /\ UNCHANGED <<now, ledger, assoc, events, nextUid, reported, ver, succeeded, appendLog, goals,
                  users, keyOk, listeners>>

\* ------------------------------------------- storage and send failures
\* PhotoStart when the GET of addFoodEntry's loadNutritionData throws: the
\* catch block of loadNutritionData returns {}
PhotoStartReadFails(t, chatId, n) ==
    /\ CanStart(t)
    /\ FreeIds(chatId) # {}
    /\ tasks' = [tasks EXCEPT ![t] =
           [Begin("photo", chatId) EXCEPT !.pc = "ph_add", !.nutrition = n,
                !.attempts = 1,
                !.data = EmptyObj, !.loadVer = ver, !.readFailed = TRUE]]
    /\ events' = events + 1
    /\ UNCHANGED <<now, ledger, assoc, nextUid, reported, ver, succeeded, appendLog, goals,
                  users, keyOk, listeners>>

\* PhotoReport when the GET of saveMessageAssociation's
\* loadMessageAssociations throws: its catch block returns {}
PhotoReportReadFails(t) ==
    /\ tasks[t].pc = "ph_report"
    /\ FreeIds(tasks[t].chat) # {}
    /\ tasks' = [tasks EXCEPT ![t].pc = "ph_assoc",
                     ![t].mid = NewMessageId(tasks[t].chat),
                     ![t].totals = getTodayTotals(tasks[t].data, tasks[t].chat, now),
                     ![t].reportDay = Today(now), ![t].outcome = "analysis",
                     ![t].associations = EmptyObj, ![t].readFailed = TRUE]
    /\ reported' = Put(reported, <<tasks[t].chat, NewMessageId(tasks[t].chat)>>, tasks[t].uid)
    /\ UNCHANGED <<now, ledger, assoc, events, nextUid, ver, succeeded, appendLog, goals,
                  users, keyOk, listeners>>

\* the photo handler when the sendMessage of the analysis message throws
\* (parse_mode Markdown rejects the text, or the network fails) after
\* addFoodEntry saved the entry: the catch block answers 'trouble analyzing
\* that image', no message id is there to associate
PhotoReportSendFails(t) ==
    /\ tasks[t].pc = "ph_report"
    /\ tasks' = [tasks EXCEPT ![t].pc = "done", ![t].outcome = "trouble",
                     ![t].totals = getTodayTotals(tasks[t].data, tasks[t].chat, now),
                     ![t].reportDay = Today(now)]
    /\ UNCHANGED <<now, ledger, assoc, events, nextUid, reported, ver, succeeded, appendLog,
                  goals, users, keyOk, listeners>>

\* processCorrection when the entry was replaced and saved and the
\* sendMessage of the confirmation throws: the catch block answers 'couldn't
\* process your correction'
CorrectConfirmFails(t) ==
    /\ tasks[t].pc = "co_update"
    /\ LET me == tasks[t]
           r == updateNutritionByMessageId(me.associations[me.mid], me.data,
                                           me.nutrition, now)
       IN  /\ r.ok
           /\ ledger' = r.data
           /\ ver' = ver + 1
           /\ now' = Later(now)
           /\ tasks' = [tasks EXCEPT ![t].pc = "done", ![t].outcome = "correction_error",
                            ![t].data = r.data, ![t].saveVer = ver + 1]
           /\ appendLog' = LogTouch(me.associations[me.mid].chatId, Today(now))
    /\ UNCHANGED <<assoc, events, nextUid, reported, succeeded, goals, users, keyOk, listeners>>

\* ------------------------------------------ app.get('/api/leaderboard')
Categories == <<"calories", "protein", "carbs", "fat", "fiber", "hydration">>

GoalIn(g, k) ==
    LET \* entries hold grams in tenths, goals hold grams: the units of an entry
        \* field in one unit of its goal
        UnitsPer == [calories |-> 1, protein |-> 10, carbs |-> 10, fat |-> 10, fiber |-> 10,
                     hydration |-> 1]
    IN
                g[k] * UnitsPer[k]

\* totals.k += entry.k || 0, for all six
BoardTotals(entries) == [k \in DOMAIN ZeroTotals |-> SumFieldOr0(entries, k)]

\* a denominator all six percentages share
CommonDen(g) ==
    LET Lcm(a, b) ==
            LET RECURSIVE Gcd(_, _)
                Gcd(x, y) == IF y = 0 THEN x ELSE Gcd(y, x % y)
            IN  (a \div Gcd(a, b)) * b
    IN
    Lcm(Lcm(Lcm(GoalIn(g, "calories"), GoalIn(g, "protein")),
            Lcm(GoalIn(g, "carbs"), GoalIn(g, "fat"))),
        Lcm(GoalIn(g, "fiber"), GoalIn(g, "hydration")))

RECURSIVE DeviationSum(_, _, _, _)
\* the sum of Math.abs(percentages.k - 1) over the categories ks, times den
DeviationSum(ks, totals, g, den) ==
    LET Abs(x) == IF x < 0 THEN -x ELSE x
    IN
    IF Len(ks) = 0 THEN 0
    ELSE Abs(totals[Head(ks)] - GoalIn(g, Head(ks))) * (den \div GoalIn(g, Head(ks)))
         + DeviationSum(Tail(ks), totals, g, den)

\* the score with the rounding left out: the fraction cut off
leaderboardScoreTruncated(totals, g) ==
    LET den == CommonDen(g)
        dev == DeviationSum(Categories, totals, g, den)
    IN  IF dev >= 6 * den THEN 0
        ELSE ((6 * den - dev) * 1000) \div (6 * den)

\* the score with Math.ceil in the place of Math.round
leaderboardScoreCeil(totals, g) ==
    LET den == CommonDen(g)
        dev == DeviationSum(Categories, totals, g, den)
    IN  IF dev >= 6 * den THEN 0
        ELSE ((6 * den - dev) * 1000 + 6 * den - 1) \div (6 * den)

\* Math.max(0, Math.round(1000 - (avgDeviation * 1000))) for goals above 0,
\* in exact arithmetic: avgDeviation = dev / (6 * den), and Math.round takes
\* a half up
leaderboardScore(totals, g) ==
    LET den == CommonDen(g)
        dev == DeviationSum(Categories, totals, g, den)
    IN  IF dev >= 6 * den THEN 0
        ELSE ((6 * den - dev) * 1000 + 3 * den) \div (6 * den)

RemoveColons(s) ==
    LET \* s.replace(/:/g, '')
        NotColon(c) == c # ":"
    IN
                   SelectSeq(s, NotColon)

Anonymous == <<"A", "n", "o", "n", "y", "m", "o", "u", "s">>

\* maskUserName that keeps the first two characters
maskUserNameKeepTwo(fullName) ==
    IF Len(fullName) <= 3 THEN (IF Len(fullName) = 0 THEN Anonymous ELSE fullName)
    ELSE [j \in 1..Len(fullName) |->
             IF j <= 2 \/ j = Len(fullName) THEN fullName[j] ELSE "*"]

\* maskUserName: firstChar, '*'.repeat(Math.max(1, length - 2)), lastChar;
\* a missing name is the empty one
maskUserName(fullName) ==
    IF Len(fullName) = 0 \/ Len(fullName) <= 3
    THEN (IF Len(fullName) = 0 THEN Anonymous ELSE fullName)
    ELSE LET middleLength == IF Len(fullName) - 2 > 1 THEN Len(fullName) - 2 ELSE 1
         IN  <<fullName[1]>> \o [j \in 1..middleLength |-> "*"] \o <<fullName[Len(fullName)]>>

\* displayName: `User ${chatId}`, or the stored username or fullName without ':'
DisplayName(usersData, chatId) ==
    IF ~Has(usersData, chatId) THEN <<"U", "s", "e", "r", " ", chatId>>
    ELSE IF Has(usersData[chatId], "username") THEN RemoveColons(usersData[chatId].username)
    ELSE IF Has(usersData[chatId], "fullName") THEN RemoveColons(usersData[chatId].fullName)
    ELSE <<"U", "s", "e", "r", " ", chatId>>

\* the object pushed for a chat with a partition of today
BoardRow(nutrition, usersData, g, chatId, today) ==
    LET \* percentages.k = totals.k / goals.k
        BoardPercentages(sums, gl) == [k \in DOMAIN ZeroTotals |-> Frac(sums[k], GoalIn(gl, k))]
        totals == BoardTotals(nutrition[chatId][today])
    IN  [userId |-> chatId,
         displayName |-> maskUserName(DisplayName(usersData, chatId)),
         score |-> leaderboardScore(totals, g),
         percentages |-> BoardPercentages(totals, g),
         totals |-> totals,
         goals |-> g]

\* the chats of the loop that have a partition of today, in the loop's order
BoardChats(nutrition, today) ==
    LET Active(c) == HasPartition(nutrition, c, today)
    IN  SelectSeq(ChatOrder, Active)

\* leaderboard.sort((a, b) => b.score - a.score) that puts a row before the
\* rows of equal score
InsertRowFirst(sorted, row) ==
    LET before == {j \in 1..Len(sorted) : sorted[j].score > row.score}
    IN  Sub(sorted, 1, Cardinality(before)) \o <<row>>
            \o Sub(sorted, Cardinality(before) + 1, Len(sorted))

\* one row put into rows sorted by score, descending: after the rows of equal
\* score, as the stable sort of the engine leaves it
InsertRow(sorted, row) ==
    LET before == {j \in 1..Len(sorted) : sorted[j].score >= row.score}
    IN  Sub(sorted, 1, Cardinality(before)) \o <<row>>
            \o Sub(sorted, Cardinality(before) + 1, Len(sorted))

RECURSIVE SortByScore(_)
SortByScore(rows) ==
    IF Len(rows) = 0 THEN <<>>
    ELSE InsertRow(SortByScore(Sub(rows, 1, Len(rows) - 1)), rows[Len(rows)])

\* the rows with score > 0, sorted, with rank and the rounded percentages
RankedLeaderboard(nutrition, usersData, g, today) ==
    LET \* Math.round(p * 100) for a fraction p >= 0
        RoundPercent(p) == (200 * p.n + p.d) \div (2 * p.d)
        chats == BoardChats(nutrition, today)
        rows == [i \in 1..Len(chats) |-> BoardRow(nutrition, usersData, g, chats[i], today)]
        Scored(row) == row.score > 0
        leaderboard == SortByScore(SelectSeq(rows, Scored))
    IN  [index \in 1..Len(leaderboard) |->
            Spread(leaderboard[index],
                   [rank |-> index,
                    details |-> [k \in DOMAIN ZeroTotals |->
                                    RoundPercent(leaderboard[index].percentages[k])]])]

\* the request arrives: GET nutrition_data is issued
LeaderboardStart(t) ==
    /\ CanStart(t)
    /\ tasks' = [tasks EXCEPT ![t] =
           [Begin("leaderboard", "A") EXCEPT !.pc = "lb_users", !.data = ledger,
                !.loadVer = ver]]
    /\ events' = events + 1
    /\ UNCHANGED <<now, ledger, assoc, nextUid, reported, ver, succeeded, appendLog, goals,
                  users, keyOk, listeners>>

\* GET users
LeaderboardUsers(t) ==
    /\ tasks[t].pc = "lb_users"
    /\ tasks' = [tasks EXCEPT ![t].pc = "lb_goals", ![t].users = users]
    /\ UNCHANGED <<now, ledger, assoc, events, nextUid, reported, ver, succeeded, appendLog,
                  goals, users, keyOk, listeners>>

\* GET goals, the loop over the chats, the sort, the ranks and res.json
LeaderboardGoals(t) ==
    /\ tasks[t].pc = "lb_goals"
    /\ LET me == tasks[t]
           g == IF goals.set THEN goals.value ELSE DefaultGoals
           chats == BoardChats(me.data, Today(now))
       IN  tasks' = [tasks EXCEPT
               ![t].pc = "done", ![t].outcome = "leaderboard",
               ![t].goals = g, ![t].reportDay = Today(now),
               ![t].scores = [c \in {chats[i] : i \in 1..Len(chats)} |->
                                 leaderboardScore(BoardTotals(me.data[c][Today(now)]), g)],
               ![t].board = RankedLeaderboard(me.data, me.users, g, Today(now))]
    /\ UNCHANGED <<now, ledger, assoc, events, nextUid, reported, ver, succeeded, appendLog,
                  goals, users, keyOk, listeners>>

\* a reply to bot message m that passed the sender test: the removal path for
\* a text with a removal keyword, the correction path for any other text
MessageReply(t, chatId, m, text, iv) ==
    \/ IsRemoval[text] /\ RemoveStart(t, chatId, m, text, iv)
    \/ ~IsRemoval[text] /\ CorrectStart(t, chatId, m, text)

\* ------------------------------------------------------ specifications
\* an inbound event starts its handler, with inputs from the given sets
Start(t, analyses, texts, eraseArgs, ivs) ==
    \/ \E c \in Chats, n \in analyses : PhotoStart(t, c, n)
    \/ \E c \in Chats : PhotoFail(t, c)
    \/ \E c \in Chats : MessageIgnored(t, c)
    \/ \E c \in Chats : MessageThrows(t, c)
    \/ \E c \in Chats, m \in MsgIds, x \in texts, iv \in ivs : MessageReply(t, c, m, x, iv)
    \/ \E c \in Chats, a \in eraseArgs, iv \in ivs : EraseStart(t, c, a, iv)

Step(t) ==
    \/ PhotoAdd(t)
    \/ PhotoTotals(t)
    \/ PhotoReport(t)
    \/ PhotoAssoc(t)
    \/ RemoveCheck(t)
    \/ RemoveFinish(t)
    \/ CorrectCheck(t)
    \/ CorrectUpdate(t)
    \/ EraseRemove(t)
    \/ EraseTotals(t)
    \/ EraseReport(t)

\* handlers interleave at their awaits; to keep the interleavings checkable,
\* the events of this specification carry one analysis, one text for each reply path
\* and /erase 1
Next ==
    \/ Tick
    \/ \E t \in Tasks :
           \/ Start(t, {Pizza}, {CokeText, RemoveText}, {[kind |-> "index", n |-> 1]}, OneIv)
           \/ Step(t)

Spec == Init /\ [][Next]_vars

\* handlers run one after another: an event arrives when no handler is in flight
SeqNext ==
    \/ Tick
    \/ \E t \in Tasks :
           \/ Quiet /\ Start(t, Analyses, ReplyTexts, EraseArgs, OneIv)
           \/ Quiet /\ \E u \in Tasks, c \in Chats, m \in MsgIds, n \in 0..MaxEraseArg,
                            iv \in OneIv : EraseReply(t, u, c, m, n, iv)
           \/ Quiet /\ CronStart(t)
           \/ \E ok \in BOOLEAN : CronChat(t, ok)
           \/ Step(t)

SeqSpec == Init /\ [][SeqNext]_vars

\* goals and progress next to photos, one handler at a time
GoalsNext ==
    \/ Tick
    \/ \E t \in Tasks :
           \/ Quiet /\ \E c \in Chats, n \in Analyses : PhotoStart(t, c, n)
           \/ Quiet /\ \E c \in Chats, g \in {OwnGoals, ZeroGoals} : ManualGoals(t, c, g)
           \/ Quiet /\ \E c \in Chats : ManualGoalsInvalid(t, c)
           \/ Quiet /\ \E c \in Chats : ProgressStart(t, c)
           \/ PhotoAdd(t)
           \/ PhotoTotals(t)
           \/ PhotoReport(t)
           \/ PhotoAssoc(t)
           \/ \E fails \in BOOLEAN : ProgressShow(t, fails)

GoalsSpec == Init /\ [][GoalsNext]_vars

\* the leaderboard next to photos, /erase and goals above 0, one handler at a time
BoardNext ==
    \/ Tick
    \/ \E t \in Tasks :
           \/ Quiet /\ \E c \in Chats, n \in BoardMeals : PhotoStart(t, c, n)
           \/ Quiet /\ \E c \in Chats : ManualGoals(t, c, OwnGoals)
           \/ Quiet /\ \E c \in Chats, iv \in OneIv : EraseStart(t, c, [kind |-> "list"], iv)
           \/ Quiet /\ LeaderboardStart(t)
           \/ Quiet /\ \E c \in Chats : ProgressStart(t, c)
           \/ \E fails \in BOOLEAN : ProgressShow(t, fails)
           \/ PhotoAdd(t)
           \/ PhotoTotals(t)
           \/ PhotoReport(t)
           \/ PhotoAssoc(t)
           \/ LeaderboardUsers(t)
           \/ LeaderboardGoals(t)

BoardSpec == Init /\ [][BoardNext]_vars

\* the bot started with an ENCRYPTION_KEY of 32 bytes, or with one of another
\* length, which createCipheriv rejects
UsersInit ==
    /\ now = [day |-> 0, ms |-> 0]
    /\ ledger = EmptyObj
    /\ assoc = EmptyObj
    /\ tasks = [t \in Tasks |-> IdleTask]
    /\ events = 0
    /\ nextUid = 0
    /\ reported = EmptyObj
    /\ ver = 0
    /\ succeeded = {}
    /\ appendLog = EmptyObj
    /\ goals = NoGoals
    /\ users = EmptyObj
    /\ keyOk \in BOOLEAN
    /\ listeners = <<>>

\* the handlers that save user information, with any IVs, one handler at a time
UsersNext ==
    \/ Tick
    \/ \E t \in Tasks :
           \/ Quiet /\ Start(t, {Pizza}, {CokeText, RemoveText}, {[kind |-> "index", n |-> 1]},
                             IvChoices)
           \/ Step(t)

UsersSpec == UsersInit /\ [][UsersNext]_vars

\* the handlers one at a time, with reads of the store and sends that fail
FaultNext ==
    \/ Tick
    \/ \E t \in Tasks :
           \/ Quiet /\ Start(t, {Pizza}, {CokeText, RemoveText}, {[kind |-> "index", n |-> 1]},
                             OneIv)
           \/ Quiet /\ \E c \in Chats : PhotoStartReadFails(t, c, Pizza)
           \/ Step(t)
           \/ PhotoReportReadFails(t)
           \/ PhotoReportSendFails(t)
           \/ CorrectConfirmFails(t)

FaultSpec == Init /\ [][FaultNext]_vars

\* maskUserName on its own: two display names are drawn, each is masked once
MaxName == 5
RECURSIVE NamesOf(_)
\* the names of up to n characters over a small alphabet
NamesOf(n) ==
    IF n = 0 THEN {<<>>}
    ELSE LET shorter == NamesOf(n - 1)
         IN  shorter \cup {Append(x, c) : x \in shorter, c \in {"a", "Z"}}

MaskInit ==
    /\ now = [day |-> 0, ms |-> 0]
    /\ ledger = EmptyObj
    /\ assoc = EmptyObj
    /\ tasks \in {[t \in Tasks |-> [IdleTask EXCEPT !.text = n[t]]] : n \in [Tasks -> NamesOf(MaxName)]}
    /\ events = 0
    /\ nextUid = 0
    /\ reported = EmptyObj
    /\ ver = 0
    /\ succeeded = {}
    /\ appendLog = EmptyObj
    /\ goals = NoGoals
    /\ users = EmptyObj
    /\ keyOk = TRUE
    /\ listeners = <<>>

\* displayName: maskUserName(displayName) for the name drawn for t
MaskName(t) ==
    /\ tasks[t].pc = "idle"
    /\ tasks' = [tasks EXCEPT ![t].pc = "done", ![t].kind = "mask",
                     ![t].board = <<[displayName |-> maskUserName(tasks[t].text)]>>]
    /\ UNCHANGED <<now, ledger, assoc, events, nextUid, reported, ver, succeeded, appendLog,
                  goals, users, keyOk, listeners>>

MaskNext == \E t \in Tasks : MaskName(t)

MaskSpec == MaskInit /\ [][MaskNext]_vars

\* ------------------------------------------------------- the dialogs
\* message texts of the dialogs: the commands, the words of the choice, a
\* feedback text, and replies to the manual goal prompt: six numbers (the
\* example of the prompt), five numbers, and seven items of which one is no number
DialogTexts ==
    LET Join(a, b) == a \o <<",", " ">> \o b
        Five == Join(Join(Join(Join(NatToChars(2000), NatToChars(150)), NatToChars(250)),
                          NatToChars(70)), NatToChars(25))
    IN  [cancel |-> <<"/", "c", "a", "n", "c", "e", "l">>,
         goals |-> <<"/", "g", "o", "a", "l", "s">>,
         feedback |-> <<"/", "f", "e", "e", "d", "b", "a", "c", "k">>,
         manual |-> <<"m", "a", "n", "u", "a", "l">>,
         hello |-> <<"h", "e", "l", "l", "o">>,
         six |-> Join(Five, NatToChars(2000)),
         five |-> Five,
         seven |-> Join(Join(<<"a", "b", "c">>, Five), NatToChars(1))]

\* bot.emit('message', msg) from listener j on: each of the first n listeners
\* (those registered when the message arrived) is called, in the order of
\* registration.  bot.on returns the bot and not the listener, so the
\* removeTextListener and removeListener calls of a listener and of its
\* timeout find nothing to remove.  st holds what the listeners have done so far.
RECURSIVE Deliver(_, _, _, _, _, _)
Deliver(j, n, msg, st, iv, t0) ==
    LET NaN == -1
        \* parseInt(p.trim()) for an unsigned item
        parseInt(p) ==
            LET digits == LeadRun(Trim(p), 1, "digit")
            IN  IF digits = 0 THEN NaN ELSE DigitsValue(Sub(Trim(p), 1, digits))
        \* text.split(',')
        RECURSIVE split(_)
        split(s) ==
            LET commas == {k \in 1..Len(s) : s[k] = ","}
            IN  IF commas = {} THEN <<s>>
                ELSE LET k == CHOOSE x \in commas : \A y \in commas : x <= y
                     IN  <<Sub(s, 1, k - 1)>> \o split(Sub(s, k + 1, Len(s)))
        IsNumber(v) == v # NaN
        parts == SelectSeq([k \in 1..Len(split(msg.text)) |-> parseInt(split(msg.text)[k])],
                           IsNumber)
        Answer(s, a) == [s EXCEPT !.answers = Append(@, a)]
        Register(s, kind) ==
            [s EXCEPT !.listeners = Append(@, [kind |-> kind, chat |-> msg.chat,
                                               timer |-> "armed", handled |-> 0])]
        choiceListener(s) ==
            LET choice == Trim(ToLower(msg.text))
            IN  IF choice = DialogTexts.cancel THEN Answer(s, "Goal setting cancelled.")
                ELSE IF choice = DialogTexts.manual
                     THEN Register(Answer(s, "Manual Goal Entry"), "manual")
                     ELSE Answer(s, "Invalid choice.")
        manualGoalListener(s) ==
            IF msg.text = DialogTexts.cancel THEN Answer(s, "Manual goal entry cancelled.")
            ELSE IF Len(parts) = 6
                 THEN [Answer(s, "Nutrition goals updated!") EXCEPT !.goals =
                          saveGoals([calories |-> parts[1], protein |-> parts[2],
                                     carbs |-> parts[3], fat |-> parts[4],
                                     fiber |-> parts[5], hydration |-> parts[6]])]
                 ELSE Answer(s, "Invalid format.")
        feedbackListener(s) ==
            IF msg.text = DialogTexts.cancel THEN Answer(s, "Feedback cancelled.")
            ELSE [Answer(s, "Thank you for your feedback!") EXCEPT
                     !.forwarded = @ + 1,
                     !.users = saveUserInfo(@, Sender[msg.chat].id,
                                            UserInfoOf(Sender[msg.chat]), iv, keyOk, t0)]
        l == st.listeners[j]
        \* the tests a listener makes before it removes itself
        skips == \/ l.chat # msg.chat
                 \/ l.kind = "feedback" /\ Len(msg.text) > 0 /\ msg.text[1] = "/"
        called == [st EXCEPT !.listeners[j].handled = @ + 1]
    IN  IF j > n THEN st
        ELSE Deliver(j + 1, n, msg,
                     IF skips THEN st
                     ELSE CASE l.kind = "choice" -> choiceListener(called)
                            [] l.kind = "manual" -> manualGoalListener(called)
                            [] l.kind = "feedback" -> feedbackListener(called),
                     iv, t0)

\* a message that is no command and no reply arrives in chatId
DialogMessage(t, chatId, text, iv) ==
    /\ CanStart(t)
    /\ LET st == Deliver(1, Len(listeners), [chat |-> chatId, text |-> text],
                         [listeners |-> listeners, goals |-> goals, users |-> users,
                          answers |-> <<>>, forwarded |-> 0], iv, now)
       IN  /\ listeners' = st.listeners
           /\ goals' = st.goals
           /\ users' = st.users
           /\ tasks' = [tasks EXCEPT ![t] =
                  [Begin("dialog", chatId) EXCEPT !.pc = "done", !.text = text,
                       !.answers = st.answers, !.forwarded = st.forwarded]]
    /\ events' = events + 1
    /\ UNCHANGED <<now, ledger, assoc, nextUid, reported, ver, succeeded, appendLog, keyOk>>

\* /goals or /feedback arrives in chatId: the 'message' listeners get it, then
\* the onText handler sends its prompt and registers its listener
DialogCommand(t, chatId, text, iv) ==
    /\ CanStart(t)
    /\ text \in {DialogTexts.goals, DialogTexts.feedback}
    /\ LET st == Deliver(1, Len(listeners), [chat |-> chatId, text |-> text],
                         [listeners |-> listeners, goals |-> goals, users |-> users,
                          answers |-> <<>>, forwarded |-> 0], iv, now)
           kind == IF text = DialogTexts.goals THEN "choice" ELSE "feedback"
       IN  /\ listeners' = Append(st.listeners, [kind |-> kind, chat |-> chatId,
                                                 timer |-> "armed", handled |-> 0])
           /\ goals' = st.goals
           /\ users' = st.users
           /\ tasks' = [tasks EXCEPT ![t] =
                  [Begin("command", chatId) EXCEPT !.pc = "done", !.text = text,
                       !.answers = Append(st.answers, IF kind = "choice"
                                                      THEN "Set Nutrition Goals"
                                                      ELSE "Send Feedback"),
                       !.forwarded = st.forwarded]]
    /\ events' = events + 1
    /\ UNCHANGED <<now, ledger, assoc, nextUid, reported, ver, succeeded, appendLog, keyOk>>

\* the setTimeout of listener j fires after 5 minutes: its removeTextListener
\* and removeListener calls get the bot and remove nothing
ListenerTimeout(j) ==
    /\ j <= Len(listeners)
    /\ listeners[j].timer = "armed"
    /\ listeners' = [listeners EXCEPT ![j].timer = "fired"]
    /\ UNCHANGED <<now, ledger, assoc, tasks, events, nextUid, reported, ver, succeeded,
                  appendLog, goals, users, keyOk>>

\* commands and messages of the dialogs, one at a time, and the timeouts
DialogNext ==
    \/ \E t \in Tasks, c \in Chats, iv \in OneIv :
           \/ \E x \in {DialogTexts.goals, DialogTexts.feedback} : DialogCommand(t, c, x, iv)
           \/ \E x \in {DialogTexts[k] : k \in {"cancel", "manual", "hello", "six", "five", "seven"}} :
                  DialogMessage(t, c, x, iv)
    \/ \E j \in 1..(MaxEvents * MaxEvents) : ListenerTimeout(j)

DialogSpec == Init /\ [][DialogNext]_vars

\* ------------------------------------------------ the parser on its own
\* correction texts by their parts: a number, the space after it, a unit of
\* the regular expression and a food; or a food alone; or '2 large eggs'
ParseInputs ==
    LET Rice == <<"r", "i", "c", "e">>
        Pho == <<"p", "h", "o">>
        LargeEggs == <<"l", "a", "r", "g", "e", " ", "e", "g", "g", "s">>
        Quantities == { <<"0">>, <<"2">>, <<"1", ".", "5">> }
        UnitNames == { <<"m", "l">>, <<"l">>, <<"g">>, <<"k", "g">>, <<"o", "z">>,
                       <<"c", "u", "p">>, <<"c", "u", "p", "s">>,
                       <<"t", "b", "s", "p">>, <<"t", "s", "p">> }
    IN  [q : Quantities, sp : {<<>>, <<" ">>}, unit : UnitNames, food : {Rice, Pho, <<>>}]
        \cup [q : {<<>>}, sp : {<<>>}, unit : {<<>>}, food : {Rice, Pho, <<"!", "!">>}]
        \cup {[q |-> <<"2">>, sp |-> <<" ">>, unit |-> <<>>, food |-> LargeEggs]}

\* the text of an input: '<number><unit> <food>', '<number> <unit> <food>',
\* '<number> <food>' or '<food>'
TextOf(i) ==
    LET rest == IF Len(i.food) = 0 \/ Len(i.q) = 0 THEN i.food ELSE <<" ">> \o i.food
    IN  IF Len(i.unit) = 0 THEN i.q \o rest ELSE i.q \o i.sp \o i.unit \o rest

\* parseUserCorrection(msg.text) for each of the texts
Parsed == [x \in {TextOf(i) : i \in ParseInputs} |-> parseUserCorrection(x)]

\* a reply with text x reaches processCorrection, which parses it
ParseReply(t, x) ==
    /\ CanStart(t)
    /\ tasks' = [tasks EXCEPT ![t] =
           [Begin("parse", "A") EXCEPT !.pc = "done", !.text = x, !.nutrition = Parsed[x]]]
    /\ events' = events + 1
    /\ UNCHANGED <<now, ledger, assoc, nextUid, reported, ver, succeeded, appendLog, goals,
                  users, keyOk, listeners>>

ParseNext == \E t \in Tasks, i \in ParseInputs : ParseReply(t, TextOf(i))

ParseSpec == Init /\ [][ParseNext]_vars

\* ============================================================ properties
\* the uids of all entries of the persisted ledger
LedgerUids ==
    UNION {Uids(ledger[c][d]) : <<c, d>> \in {<<c, d>> \in Chats \X (0..(MaxDay + 1)) :
                                                HasPartition(ledger, c, d)}}

\* the entry a reply's target message reported
TargetUid(t) == reported[<<tasks[t].chat, tasks[t].mid>>]

\* handler t made a step
Moved(t) == tasks'[t] # tasks[t]

\* a reply handler that has returned on the day it began, observed on that day
ReplyDone(t, kind) ==
    /\ tasks[t].kind = kind
    /\ tasks[t].pc = "done"
    /\ tasks[t].startDay = Today(now)

CorrectedFields == {"food_name", "calories", "protein", "carbs", "fat", "serving_size"}

\* ------------------------------------------------------------------- C1
\* C1: once a reply 'remove' to the analysis message M of a logged entry has
\* been handled, the entry M reported is no longer in the chat's partition for
\* today and the association for M is deleted.
C1_ReplyRemoveRemovesEntry ==
    \A t \in Tasks :
        ReplyDone(t, "remove") /\ tasks[t].live =>
            /\ TargetUid(t) \notin Uids(Partition(ledger, tasks[t].chat, Today(now)))
            /\ ~(Has(assoc, tasks[t].mid) /\ assoc[tasks[t].mid].chatId = tasks[t].chat)

\* ------------------------------------------------------------------- C2
\* C2: of two removal replies to the same analysis message, the first (the
\* entry is logged, no removal has succeeded yet) reports success, and the
\* second (after a successful one) reports not-found without saving the ledger
\* or the associations.
C2_RemovalTwice ==
    \A t \in Tasks :
        ReplyDone(t, "remove") =>
            /\ tasks[t].live /\ ~tasks[t].again => tasks[t].outcome = "removed"
            /\ tasks[t].again => /\ tasks[t].outcome \in {"no_association", "remove_failed"}
                                 /\ tasks[t].saveVer = 0

\* ------------------------------------------------------------------- C3
\* what C3 says of handler t's step from co_update
C3_CorrectionStep(t) ==
    tasks[t].pc = "co_update" /\ tasks[t].live /\ tasks'[t].outcome = "updated" =>
        LET c == tasks[t].chat
            old == Partition(ledger, c, Today(now))
            new == Partition(ledger', c, Today(now))
        IN  /\ Len(new) = Len(old)
            /\ \E i \in 1..Len(old) : old[i].uid = TargetUid(t)
            /\ \A i \in 1..Len(old) :
                   IF old[i].uid = TargetUid(t)
                   THEN /\ new[i].uid = old[i].uid
                        /\ \A k \in CorrectedFields : new[i][k] = tasks[t].nutrition[k]
                        /\ FieldEq(new[i], old[i], "fiber")
                        /\ FieldEq(new[i], old[i], "hydration")
                   ELSE new[i] = old[i]
            /\ \A c2 \in Chats, d2 \in 0..(MaxDay + 1) :
                   <<c2, d2>> # <<c, Today(now)>> =>
                       Partition(ledger', c2, d2) = Partition(ledger, c2, d2)

\* C3: the step of a correction reply to message M that reports success
\* replaces, at its index, the six corrected fields of the entry M reported
\* with the parsed values, keeps that entry's fiber and hydration, and leaves
\* every other entry of every partition as it was.
C3_CorrectionReplacesReportedEntry == [][\A t \in Tasks : C3_CorrectionStep(t)]_vars

\* ------------------------------------------------------------------- C4
\* C4: when a mutating handler loaded the ledger before a photo handler saved
\* its entry and saved its own copy after it, the persisted ledger no longer
\* holds the photo's entry: the later save carries only its own change.
C4_LostUpdate ==
    \A t1, t2 \in Tasks :
        /\ tasks[t1].kind = "photo"
        /\ tasks[t1].saveVer > 0
        /\ tasks[t2].saveVer > tasks[t1].saveVer
        /\ tasks[t2].loadVer < tasks[t1].saveVer
        /\ ver = tasks[t2].saveVer
        => tasks[t1].uid \notin LedgerUids

\* both handlers have reported success, and the photo's entry is not persisted
C4_Witness ==
    \E t1, t2 \in Tasks :
        /\ tasks[t1].kind = "photo" /\ tasks[t1].pc = "done"
        /\ tasks[t1].outcome = "analysis"
        /\ tasks[t2].kind = "correct" /\ tasks[t2].pc = "done"
        /\ tasks[t2].outcome = "updated"
        /\ tasks[t2].chat = tasks[t1].chat
        /\ tasks[t2].loadVer < tasks[t1].saveVer
        /\ tasks[t1].saveVer < tasks[t2].saveVer
        /\ tasks[t1].uid \notin LedgerUids

\* ------------------------------------------------------------------- C5
\* the totals handler t reported count its own entry
ReportIncludesOwn(t) ==
    /\ tasks[t].uid \in Uids(Partition(tasks[t].data, tasks[t].chat, tasks[t].reportDay))
    /\ tasks[t].totals =
           TotalsOf(Partition(tasks[t].data, tasks[t].chat, tasks[t].reportDay))

\* a photo handler that sent its analysis message on the date of its append
PhotoReported(t) ==
    /\ tasks[t].kind = "photo"
    /\ tasks[t].outcome = "analysis"
    /\ tasks[t].addDay = tasks[t].reportDay

\* C5 as stated: under every interleaving with other handlers, the totals a
\* photo handler reads and reports after its addFoodEntry include its entry.
C5_ReadsOwnWriteAlways ==
    \A t \in Tasks : PhotoReported(t) => ReportIncludesOwn(t)

\* C5: the totals a photo handler reads and reports after its addFoodEntry
\* include its entry whenever no other handler saved the ledger between the
\* handler's save and its read.
C5_ReadsOwnWrite ==
    \A t \in Tasks :
        PhotoReported(t) /\ tasks[t].readVer = tasks[t].saveVer => ReportIncludesOwn(t)

\* a photo handler reported totals with its entry while another handler is in flight
C5_Witness ==
    \E t, u \in Tasks :
        /\ PhotoReported(t) /\ tasks[t].readVer = tasks[t].saveVer
        /\ ReportIncludesOwn(t)
        /\ tasks[t].totals.calories > 0
        /\ u # t /\ ~Idle(u)

\* ------------------------------------------------------------------- C6
\* C6: no association outlives its entry: whenever the association recorded
\* for an analysis message exists, the entry that message reported is in the
\* ledger.
C6_NoAssociationOutlivesEntry ==
    \A c \in Chats, m \in MsgIds :
        /\ Has(reported, <<c, m>>)
        /\ reported[<<c, m>>] > 0
        /\ Has(assoc, m)
        /\ assoc[m].chatId = c
        => reported[<<c, m>>] \in LedgerUids

\* ------------------------------------------------------------------- C7
\* C7: a correction reply to a message M whose entry is logged, sent after a
\* correction through M has succeeded, finds the entry again and updates it.
C7_RepeatedCorrection ==
    \A t \in Tasks :
        ReplyDone(t, "correct") /\ tasks[t].live /\ tasks[t].again =>
            tasks[t].outcome = "updated"

\* ------------------------------------------------------------------- C8
\* C8: no step of a correction reply, successful or not, changes the
\* association index: every association keeps its chatId and its snapshot.
C8_CorrectionKeepsAssociations ==
    [][\A t \in Tasks : Moved(t) /\ tasks'[t].kind = "correct" => assoc' = assoc]_vars

\* a correction has succeeded and the association still holds the analysis
C8_Witness ==
    \E t \in Tasks :
        /\ tasks[t].kind = "correct" /\ tasks[t].pc = "done"
        /\ tasks[t].outcome = "updated"
        /\ Has(assoc, tasks[t].mid)
        /\ assoc[tasks[t].mid].chatId = tasks[t].chat
        /\ assoc[tasks[t].mid].nutritionData = Pizza

\* ------------------------------------------------------------------- C9
\* C9: for a chat and date whose partition has only been appended to, by
\* handlers run one after another, getTodayTotals returns for each of the six
\* fields the sum over the appended entries, an absent fiber or hydration
\* counting 0; with nothing appended it returns the all-zero totals.
C9_TotalsAreSums ==
    \A c \in Chats :
        LogOf(c, Today(now)).pure =>
            getTodayTotals(loadNutritionData, c, now) = LogOf(c, Today(now)).sum

\* two entries appended to one partition, one of them without fiber
C9_Witness ==
    \E c \in Chats :
        LET entries == Partition(ledger, c, Today(now))
        IN  /\ LogOf(c, Today(now)).pure
            /\ Len(entries) = 2
            /\ \E i \in 1..2 : ~Has(entries[i], "fiber")
            /\ \E i \in 1..2 : Has(entries[i], "fiber")
            /\ getTodayTotals(ledger, c, now).calories = Pizza.calories + Toast.calories

\* ------------------------------------------------------------------ C10
\* what C10 says of handler t's step from er_remove
C10_EraseStep(t) ==
    tasks[t].pc = "er_remove" /\ Moved(t) =>
        LET c == tasks[t].chat
            i == tasks[t].arg - 1
            old == Partition(ledger, c, Today(now))
            new == Partition(ledger', c, Today(now))
        IN  IF HasPartition(ledger, c, Today(now)) /\ i >= 0 /\ i < Len(old)
            THEN /\ tasks'[t].pc = "er_totals"
                 /\ tasks'[t].removed = old[i + 1]
                 /\ Len(new) = Len(old) - 1
                 /\ \A j \in 1..Len(new) : new[j] = IF j <= i THEN old[j] ELSE old[j + 1]
                 /\ \A k \in DOMAIN ZeroTotals :
                        getTodayTotals(ledger', c, now)[k] =
                            getTodayTotals(ledger, c, now)[k] - NumOr0(old[i + 1], k)
            ELSE /\ tasks'[t].outcome = "invalid_number"
                 /\ ledger' = ledger
                 /\ getTodayTotals(ledger', c, now) = getTodayTotals(ledger, c, now)

\* C10: the step of /erase N that runs removeFoodEntryByIndex(chat, N - 1):
\* with a valid index it removes exactly that entry of today's partition and
\* the totals drop by that entry's fields; with an index below 0, at or past
\* the length, or without a partition for today, it fails and the ledger and
\* the totals are unchanged.
C10_RemoveByIndex == [][\A t \in Tasks : C10_EraseStep(t)]_vars

\* /erase 1 removed the first of two entries
C10_Witness ==
    \E t \in Tasks :
        /\ tasks[t].kind = "erase" /\ tasks[t].outcome = "erased"
        /\ tasks[t].arg = 1
        /\ tasks[t].removed # EmptyObj
        /\ Len(Partition(ledger, tasks[t].chat, tasks[t].reportDay)) = 1
        /\ tasks[t].removed.uid < Partition(ledger, tasks[t].chat, tasks[t].reportDay)[1].uid

\* ------------------------------------------------------------------ C11
\* what C11 says of handler t's step from ph_assoc
C11_RecordStep(t) ==
    tasks[t].pc = "ph_assoc" /\ Moved(t) =>
        /\ Has(assoc', tasks[t].mid)
        /\ assoc'[tasks[t].mid].chatId = tasks[t].chat
        /\ assoc'[tasks[t].mid].nutritionData = tasks[t].nutrition
        /\ DOMAIN assoc' = DOMAIN assoc \cup {tasks[t].mid}

\* C11: right after saveMessageAssociation(m, chat, entry) the stored index
\* holds for m exactly one association, with chatId chat and a snapshot equal
\* to entry, also when m already had an association (it is overwritten).
C11_AssociationRoundTrip == [][\A t \in Tasks : C11_RecordStep(t)]_vars

\* message 1 of chat B was recorded over the association of message 1 of chat A
C11_Witness ==
    /\ Has(reported, <<"A", 1>>) /\ reported[<<"A", 1>>] > 0
    /\ Has(reported, <<"B", 1>>) /\ reported[<<"B", 1>>] > reported[<<"A", 1>>]
    /\ DOMAIN assoc = {1}
    /\ assoc[1].chatId = "B"
    /\ \E t \in Tasks : /\ tasks[t].kind = "photo" /\ tasks[t].pc = "done"
                        /\ tasks[t].chat = "B" /\ tasks[t].mid = 1
                        /\ assoc[1].nutritionData = tasks[t].nutrition

\* ------------------------------------------------------------------ C12
\* the entries are in the order in which they were appended
InAppendOrder(entries) ==
    \A i, j \in 1..Len(entries) : i < j => entries[i].uid < entries[j].uid

\* C12: with handlers run one after another, the entries of every partition
\* are in the order in which they were appended, and the list that /erase
\* shows numbers the entries of today's partition in that stored order.
C12_AppendOrder ==
    /\ \A c \in Chats, d \in 0..(MaxDay + 1) : InAppendOrder(Partition(ledger, c, d))
    /\ \A t \in Tasks :
           /\ tasks[t].kind = "erase"
           /\ tasks[t].outcome = "listed"
           /\ tasks[t].loadVer = ver
           => /\ Partition(tasks[t].data, tasks[t].chat, tasks[t].startDay)
                     = Partition(ledger, tasks[t].chat, tasks[t].startDay)
              /\ InAppendOrder(Partition(tasks[t].data, tasks[t].chat, tasks[t].startDay))

\* of two entries the first was corrected after the second was appended, and
\* is still the first
C12_Witness ==
    \E c \in Chats :
        LET entries == Partition(ledger, c, Today(now))
        IN  /\ Len(entries) = 2
            /\ entries[1].uid < entries[2].uid
            /\ entries[1].timestamp.ms > entries[2].timestamp.ms

\* ------------------------------------------------------------------ C13
\* the entries of the whole ledger, by uid
EntriesOf(data) ==
    UNION {{data[c][d][i] : i \in 1..Len(data[c][d])} :
               <<c, d>> \in {<<c, d>> \in Chats \X (0..(MaxDay + 1)) : HasPartition(data, c, d)}}

\* C13: no step changes the timestamp of an entry that stays in the ledger:
\* it keeps the value it got when it was appended.
C13_TimestampImmutable ==
    [][\A e1 \in EntriesOf(ledger), e2 \in EntriesOf(ledger') :
           e1.uid = e2.uid => e1.timestamp = e2.timestamp]_vars

\* ------------------------------------------------------------------ C14
\* what C14 says of handler t's step from co_update
C14_CorrectionStep(t) ==
    tasks[t].pc = "co_update" /\ tasks'[t].outcome = "updated" =>
        \A e \in EntriesOf(ledger') \ EntriesOf(ledger) :
            /\ Has(e, "confidence")
            /\ e.confidence = "manually corrected"

\* C14: the entry a successful correction stores in the ledger has confidence
\* 'manually corrected'.
C14_CorrectedConfidence == [][\A t \in Tasks : C14_CorrectionStep(t)]_vars

\* ------------------------------------------------------------------ C15
\* the reply handled by t went to an analysis message of its chat whose
\* association is recorded and whose entry was logged on an earlier day than
\* the reply and is still in that day's partition
RepliedLater(t) ==
    /\ tasks[t].kind \in {"correct", "remove"}
    /\ tasks[t].pc = "done"
    /\ ~tasks[t].again
    /\ TargetUid(t) > 0
    /\ Has(assoc, tasks[t].mid)
    /\ assoc[tasks[t].mid].chatId = tasks[t].chat
    /\ \E d \in 0..MaxDay :
           /\ d < tasks[t].startDay
           /\ TargetUid(t) \in Uids(Partition(ledger, tasks[t].chat, d))

\* C15: a correction or removal reply that arrives on a later day than the
\* one on which the entry of its analysis message was logged still reaches
\* that entry: the reply succeeds.
C15_ReplyOnLaterDay ==
    \A t \in Tasks : RepliedLater(t) => tasks[t].outcome \in {"updated", "removed"}

\* ------------------------------------------------------------------ C16
\* the reply texts that contain 'remove', 'delete', 'erase' or 'cancel' in
\* some capitalisation
KeywordTexts == {RemoveText, DeleteText} \cup EraseCommands

\* C16: every reply to a bot message is handled by exactly one path: the
\* removal path when its text contains a removal keyword in any
\* capitalisation, the correction path otherwise.
C16_ExactlyOnePath ==
    \A t \in Tasks :
        tasks[t].kind \in {"reply", "remove", "correct"} =>
            /\ tasks[t].kind \in {"remove", "correct"}
            /\ tasks[t].kind = "remove" <=> tasks[t].text \in KeywordTexts

\* ------------------------------------------------------------------ C17
\* what C17 says of the step in which handler t answers 'trouble analyzing'
C17_FailStep(t) ==
    Moved(t) /\ tasks'[t].outcome = "trouble" =>
        /\ tasks'[t].kind = "photo"
        /\ tasks'[t].pc = "done"
        /\ tasks'[t].attempts = 1
        /\ tasks'[t].uid = 0
        /\ tasks'[t].mid = 0
        /\ ledger' = ledger
        /\ assoc' = assoc

Answered(t) ==
    /\ tasks[t].pc = "done"
    /\ tasks[t].outcome \in {"erased", "invalid_number", "need_number", "listed", "no_entries",
                             "removed", "remove_failed", "no_association",
                             "updated", "not_found", "correction_error"}

\* C18: a user message that is an /erase command, a removal reply or a
\* correction reply has, once its handlers have returned, exactly one outcome
\* message: one handler answered when the message started one handler, and
\* exactly one of the two answered when '/erase N' was sent as a reply.
C18_ExactlyOneOutcome ==
    /\ \A t \in Tasks :
           /\ tasks[t].kind \in {"erase", "remove", "correct", "reply"}
           /\ tasks[t].pc = "done"
           /\ ~tasks[t].twin
           => Answered(t)
    /\ \A t, u \in Tasks :
           /\ u = t + 1
           /\ tasks[t].twin /\ tasks[u].twin
           /\ tasks[t].pc = "done" /\ tasks[u].pc = "done"
           => Answered(t) # Answered(u)

\* ------------------------------------------------------------------ C19
\* C19: when the daily dispatch has run through on one day with no other
\* handler in between, a summary was sent to no chat without entries today
\* (also when all its entries were removed), and every chat with entries
\* today got its summary or a send failure of its own.
C19_DailySummaries ==
    \A t \in Tasks :
        /\ tasks[t].kind = "cron"
        /\ tasks[t].pc = "done"
        /\ tasks[t].startDay = Today(now)
        /\ tasks[t].loadVer = ver
        => \A c \in Chats :
               /\ c \in tasks[t].sent => Len(Partition(ledger, c, Today(now))) > 0
               /\ Len(Partition(ledger, c, Today(now))) > 0 =>
                      c \in tasks[t].sent \cup tasks[t].failed

\* ------------------------------------------------------------------ C20
\* what C20 says of handler t's steps that save or load the goals
C20_GoalsStep(t) ==
    /\ Moved(t) /\ tasks'[t].outcome = "goals_updated" =>
           /\ goals'.set
           /\ goals'.value = tasks'[t].goals
    /\ Moved(t) /\ tasks'[t].outcome = "progress" =>
           tasks'[t].goals =
               IF tasks'[t].readFailed \/ ~goals.set
               THEN [calories |-> 2000, protein |-> 150, carbs |-> 250, fat |-> 70,
                     fiber |-> 25, hydration |-> 2000]
               ELSE goals.value

\* C20: saveGoals(g) stores g as it is, zeros included, and loadGoals returns
\* the six defaults when nothing was saved or the read failed, and otherwise
\* the goals saved last, whatever the chat.
C20_GoalsRoundTrip == [][\A t \in Tasks : C20_GoalsStep(t)]_vars

\* goals with zeros saved in one chat were shown in the other
C20_Witness ==
    \E t \in Tasks :
        /\ tasks[t].kind = "progress" /\ tasks[t].pc = "done"
        /\ tasks[t].chat = "B"
        /\ ~tasks[t].readFailed
        /\ goals = [set |-> TRUE, value |-> ZeroGoals]
        /\ tasks[t].goals = ZeroGoals
        /\ tasks[t].goals.calories = 0

\* ------------------------------------------------------------------ C21
\* the leaderboard requests that were answered
BoardDone == {t \in Tasks : tasks[t].kind = "leaderboard" /\ tasks[t].pc = "done"}

\* the totals the request of handler t saw for chat c
SeenTotals(t, c) ==
    LET entries == tasks[t].data[c][tasks[t].reportDay]
    IN  [k \in DOMAIN ZeroTotals |-> SumFieldOr0(entries, k)]

\* s is max(0, round(x)) for x = 1000 - 1000 * dev / (6 * den)
IsRoundedScore(s, dev, den) ==
    \/ s = 0 /\ (6 * den - dev) * 1000 < 3 * den
    \/ /\ 6 * den * s - 3 * den <= (6 * den - dev) * 1000
       /\ (6 * den - dev) * 1000 < 6 * den * s + 3 * den

\* C21: the score of a chat is max(0, round(1000 - 1000 * mean |total/goal - 1|)),
\* lies in 0..1000, is 1000 when the totals equal the goals, 900 when they are
\* 90% of every goal, and 0 when they are all zero.
C21_ScoreFormula ==
    \A t \in BoardDone : \A c \in DOMAIN tasks[t].scores :
        LET s == tasks[t].scores[c]
            g == tasks[t].goals
            totals == SeenTotals(t, c)
            den == CommonDen(g)
        IN  /\ s \in 0..1000
            /\ IsRoundedScore(s, DeviationSum(Categories, totals, g, den), den)
            /\ (\A k \in DOMAIN totals : totals[k] = GoalIn(g, k)) => s = 1000
            /\ (\A k \in DOMAIN totals : 10 * totals[k] = 9 * GoalIn(g, k)) => s = 900
            /\ (\A k \in DOMAIN totals : totals[k] = 0) => s = 0

\* one request saw a chat at its goals, one at 90% and one at zero, and a
\* score that the rounding took up
C21_Witness ==
    \E t \in BoardDone : \E c, d \in DOMAIN tasks[t].scores :
        /\ tasks[t].scores[c] = 900
        /\ \A k \in DOMAIN ZeroTotals : 10 * SeenTotals(t, c)[k] = 9 * GoalIn(tasks[t].goals, k)
        /\ tasks[t].scores[d] = 463
        /\ SeenTotals(t, d).calories = 1000

\* ------------------------------------------------------------------ C22
\* the place of chat c in the order of the loop over the ledger
LoopPlace(c) == CHOOSE i \in 1..Len(ChatOrder) : ChatOrder[i] = c

\* C22: the ranked leaderboard holds exactly the chats with a partition of
\* today and a score above 0, by score descending, equal scores in the order
\* of the loop over the ledger, with the ranks 1..n.
C22_RankedLeaderboard ==
    \A t \in BoardDone :
        LET board == tasks[t].board
            scores == tasks[t].scores
        IN  /\ DOMAIN scores = {c \in Chats : HasPartition(tasks[t].data, c, tasks[t].reportDay)}
            /\ {board[i].userId : i \in 1..Len(board)} = {c \in DOMAIN scores : scores[c] > 0}
            /\ \A i, j \in 1..Len(board) : i < j =>
                   /\ board[i].userId # board[j].userId
                   /\ \/ board[i].score > board[j].score
                      \/ /\ board[i].score = board[j].score
                         /\ LoopPlace(board[i].userId) < LoopPlace(board[j].userId)
            /\ \A i \in 1..Len(board) :
                   /\ board[i].rank = i
                   /\ board[i].score = scores[board[i].userId]
                   /\ board[i].score > 0

\* two chats with the same score were ranked
C22_Witness ==
    \E t \in BoardDone :
        /\ Len(tasks[t].board) = 2
        /\ tasks[t].board[1].score = tasks[t].board[2].score
        /\ tasks[t].board[1].userId = "A"
        /\ tasks[t].board[2].rank = 2

\* ------------------------------------------------------------------ C23
\* today's totals of the scenario: 1800 kcal, 140 g, 230 g, 65 g, 20 g, 1900 ml
ScenarioTotals == [calories |-> 1800, protein |-> 1400, carbs |-> 2300, fat |-> 650,
                   fiber |-> 200, hydration |-> 1900]
ScenarioPercents == [calories |-> 90, protein |-> 93, carbs |-> 92, fat |-> 93,
                     fiber |-> 80, hydration |-> 95]

\* the percentages of /progress and of the leaderboard for the scenario
ScenarioProgress ==
    /\ \A t \in Tasks :
           /\ tasks[t].kind = "progress" /\ tasks[t].pc = "done"
           /\ tasks[t].goals = DefaultGoals
           /\ tasks[t].totals = ScenarioTotals
           => tasks[t].progress = ScenarioPercents
    /\ \A t \in BoardDone : \A i \in 1..Len(tasks[t].board) :
           /\ tasks[t].goals = DefaultGoals
           /\ tasks[t].board[i].totals = ScenarioTotals
           => tasks[t].board[i].details = ScenarioPercents

\* the score of the scenario is s
ScenarioScore(s) ==
    \A t \in BoardDone : \A c \in DOMAIN tasks[t].scores :
        /\ tasks[t].goals = DefaultGoals
        /\ SeenTotals(t, c) = ScenarioTotals
        => tasks[t].scores[c] = s

\* C23 as stated: the percentages are 90, 93, 92, 93, 80, 95 and the score is 906.
C23_Score906 == ScenarioProgress /\ ScenarioScore(906)

\* C23: with the default goals and totals of 1800, 140, 230, 65, 20 and 1900
\* the progress percentages are 90, 93, 92, 93, 80 and 95 and the leaderboard
\* score is 905.
C23_Score905 == ScenarioProgress /\ ScenarioScore(905)

\* the leaderboard ranked the chat of the scenario
C23_Witness ==
    \E t \in BoardDone :
        /\ tasks[t].goals = DefaultGoals
        /\ Len(tasks[t].board) = 1
        /\ tasks[t].board[1].totals = ScenarioTotals
        /\ tasks[t].board[1].details = ScenarioPercents
        /\ tasks[t].board[1].score = 905
        /\ Len(tasks[t].data[tasks[t].board[1].userId][tasks[t].reportDay]) = 2

\* ------------------------------------------------------------------ C24
\* the rows and quantities (ml) of the correction texts
Coke == <<"C", "o", "k", "e">>
Coffee == <<"C", "o", "f", "f", "e", "e">>
RowOf(key) == foodDatabase[CHOOSE r \in 1..Len(foodDatabase) : foodDatabase[r].key = key]
ExpectedRow == [x \in CorrectionTexts |-> IF x = CoffeeText THEN RowOf(Coffee) ELSE RowOf(Coke)]
ExpectedMl == [x \in CorrectionTexts |->
                  IF x = CokeText THEN 500 ELSE IF x = CoffeeText THEN 200 ELSE 125]

\* v scaled by ml / 250 and rounded to the nearest unit, a half up
ScaledByMl(v, ml) == (2 * v * ml + 250) \div 500

\* C24: parseUserCorrection('500ml coke') is Coke, '500ml', 280 kcal, 78 g of
\* carbs, 0 protein and fat; 'coffee 200ml' gives 4 kcal, 0.2 g of protein, 0
\* carbs and fat; the row is found by a case-insensitive substring lookup and
\* scaled by quantity / 250 for ml, calories to an integer, the rest to one decimal.
C24_ParseExamples ==
    \A t \in Tasks : tasks[t].kind = "correct" =>
        LET x == tasks[t].text
            c == tasks[t].nutrition
        IN  /\ x = CokeText =>
                 /\ c.food_name = Coke
                 /\ c.serving_size = <<"5", "0", "0", "m", "l">>
                 /\ c.calories = 280 /\ c.carbs = 780 /\ c.protein = 0 /\ c.fat = 0
            /\ x = CoffeeText =>
                 /\ c.calories = 4 /\ c.protein = 2 /\ c.carbs = 0 /\ c.fat = 0
            /\ \A k \in {"calories", "protein", "carbs", "fat"} :
                 c[k] = ScaledByMl(ExpectedRow[x][k], ExpectedMl[x])

\* the text in capitals, whose food name is longer than the key, was parsed
C24_Witness ==
    \E t \in Tasks :
        /\ tasks[t].kind = "correct" /\ tasks[t].text = DietCokeText
        /\ tasks[t].nutrition.food_name = <<"D", "i", "e", "t", " ", "c", "o", "k", "e">>
        /\ tasks[t].nutrition.serving_size = <<"1", "2", "5", "m", "l">>
        /\ tasks[t].nutrition.calories = 70 /\ tasks[t].nutrition.carbs = 195

\* ------------------------------------------------------------------ C25
\* the names that were masked, with their masks
Masked == {t \in Tasks : tasks[t].kind = "mask" /\ tasks[t].pc = "done"}
MaskOf(t) == tasks[t].board[1].displayName

PlainField(u, k) == UserInfoOf(Sender[u])[k]

\* C26: every record stored under 'users' holds firstName, lastName, username
\* and fullName as ciphertext only, never as the plaintext, also when encrypt
\* fails; and decrypt(encrypt(x)) = x for every non-empty x.
C26_StoredEncrypted ==
    /\ \A u \in DOMAIN users : \A k \in SensitiveFields \cap DOMAIN users[u] :
           /\ users[u][k] # PlainField(u, k)
           /\ ~Includes(users[u][k], PlainField(u, k))
    /\ \A u \in DOMAIN users : \A k \in SensitiveFields \cap DOMAIN users[u] :
           \A iv \in {Iv0, Iv1} :
               decrypt(encrypt(PlainField(u, k), iv, keyOk), keyOk) = PlainField(u, k)

\* ------------------------------------------------------------------ C27
\* C27: a correction or removal reply received in a chat changes only that
\* chat's partitions, never those of another chat, also when the replied-to
\* message has the id of an analysis message recorded for the other chat.
C27_ReplyStaysInChat ==
    [][\A t \in Tasks :
           Moved(t) /\ tasks'[t].kind \in {"remove", "correct"} =>
               \A c \in Chats \ {tasks'[t].chat} :
                   /\ Has(ledger', c) <=> Has(ledger, c)
                   /\ Has(ledger, c) => ledger'[c] = ledger[c]]_vars

\* ------------------------------------------------------------------ C28
SnapshotFields == {"food_name", "calories", "protein", "carbs", "fat"}

\* the entry the reply of handler t is about is the j-th of its partition and
\* an earlier entry has the same food_name, calories, protein, carbs and fat
SecondOfTwins(t, entries, j) ==
    /\ entries[j].uid = TargetUid(t)
    /\ \E i \in 1..(j - 1) : \A k \in SnapshotFields : entries[i][k] = entries[j][k]

\* what C28 says of the step in which the correction handler t returns
C28_TwinStep(t) ==
    LET me == tasks'[t]
        old == Partition(ledger, me.chat, Today(now))
        new == Partition(ledger', me.chat, Today(now))
    IN  /\ Moved(t) /\ me.kind = "correct" /\ me.pc = "done"
        /\ me.live /\ me.startDay = Today(now)
        => \A j \in 1..Len(old) : SecondOfTwins(t, old, j) =>
               /\ Len(new) = Len(old)
               /\ \A k \in DOMAIN me.nutrition : new[j][k] = me.nutrition[k]
               /\ \A i \in 1..(j - 1) : new[i] = old[i]

\* C28: when two entries of a partition have equal food_name, calories,
\* protein, carbs and fat, a correction reply to the analysis message of the
\* second one updates the second entry and leaves the first unchanged.
C28_SecondTwinUpdated == [][\A t \in Tasks : C28_TwinStep(t)]_vars

\* ------------------------------------------------------------------ C29
\* C29: a failed read never destroys persisted data: when loadNutritionData
\* or loadMessageAssociations fails inside addFoodEntry or
\* saveMessageAssociation and the save that follows succeeds, the entries and
\* the associations of every chat that were persisted before are still
\* persisted after.
C29_FailedReadKeepsData ==
    [][\A t \in Tasks :
           Moved(t) /\ tasks[t].kind = "photo" /\ tasks[t].readFailed =>
               /\ LedgerUids \subseteq LedgerUids'
               /\ \A m \in DOMAIN assoc \ {tasks[t].mid} :
                      Has(assoc', m) /\ assoc'[m] = assoc[m]]_vars

\* ------------------------------------------------------------------ C30
FailureOutcomes == {"no_association", "remove_failed", "correction_error", "not_found"}

\* C30: whenever the removal or the correction path reports a failure, the
\* handler has changed neither the ledger nor the association index, also
\* when a write or a send failed part-way: no entry is removed while its
\* association remains, no entry is changed while failure is reported.
C30_FailureChangesNothing ==
    \A t \in Tasks :
        /\ tasks[t].kind \in {"remove", "correct"}
        /\ tasks[t].pc = "done"
        /\ tasks[t].outcome \in FailureOutcomes
        => /\ tasks[t].saveVer = 0
           /\ tasks[t].removed = EmptyObj

\* ---------------------------------------------------------------- C31
\* C31: a photo handler that answered 'trouble analyzing that image' added no
\* entry to the ledger (and every entry a photo handler added gets its
\* association: a handler that added one does not end with that answer)
C31_TroubleAddsNothing ==
    \A t \in Tasks :
        (tasks[t].kind = "photo" /\ tasks[t].pc = "done" /\ tasks[t].outcome = "trouble")
            => tasks[t].uid = 0

\* ---------------------------------------------------------------- C32
\* C32: an association that is in the saved index stays there in every step,
\* whatever handlers interleave, except in the step in which a removal reply
\* to its own message saves the index without it.
C32_AssociationStays ==
    [][\A m \in DOMAIN assoc :
           \/ Has(assoc', m)
           \/ \E t \in Tasks : /\ tasks[t].kind = "remove" /\ tasks[t].pc = "rm_assoc"
                                /\ tasks[t].mid = m /\ tasks'[t].pc = "rm_totals"]_vars

\* ---------------------------------------------------------------- C33
\* the chat whose partition handler t writes: the chat of the association
\* for a reply, the chat of the message for a photo and for /erase
OpChat(t) ==
    IF tasks[t].kind \in {"remove", "correct"} /\ Has(tasks[t].associations, tasks[t].mid)
    THEN tasks[t].associations[tasks[t].mid].chatId
    ELSE tasks[t].chat

\* all partitions of a chat in a saved ledger
ChatData(data, c) == IF Has(data, c) THEN data[c] ELSE EmptyObj

\* C33: a step in which a handler saves the ledger for its chat leaves the
\* partitions of every other chat as they were, whatever handlers interleave.
C33_OtherChatsUnchanged ==
    [][\A t \in Tasks :
           Moved(t) /\ ledger' # ledger =>
               \A c \in Chats \ {OpChat(t)} : ChatData(ledger', c) = ChatData(ledger, c)]_vars

\* ---------------------------------------------------------------- C34
\* the inputs of the texts a finished parse handler t was given
InputsOf(t) ==
    IF tasks[t].kind = "parse" /\ tasks[t].pc = "done"
    THEN {i \in ParseInputs : TextOf(i) = tasks[t].text}
    ELSE {}

\* a food with its first letter in upper case
Capitalized(food) ==
    CASE food = <<"r", "i", "c", "e">> -> <<"R", "i", "c", "e">>
      [] food = <<"p", "h", "o">> -> <<"P", "h", "o">>

\* C34: for '<number><unit> <food>' and '<number> <unit> <food>' with any of
\* the nine units, parseUserCorrection takes that unit (the serving size is
\* the number and the unit) and the food name is <food>, capitalized; for
\* '2 large eggs' no quantity and unit are taken.
C34_QuantityUnitToken ==
    \A t \in Tasks : \A i \in InputsOf(t) :
        /\ Len(i.unit) > 0 /\ Len(i.food) > 0 =>
               /\ tasks[t].nutrition.serving_size = i.q \o i.unit
               /\ tasks[t].nutrition.food_name = Capitalized(i.food)
        /\ Len(i.unit) = 0 /\ Len(i.q) > 0 =>
               tasks[t].nutrition.serving_size =
                   <<"S", "t", "a", "n", "d", "a", "r", "d", " ", "s", "e", "r", "v", "i", "n", "g">>

\* ---------------------------------------------------------------- C35
\* the number of an input, as a fraction
QuantityOf(q) ==
    CASE q = <<"0">> -> [n |-> 0, d |-> 1]
      [] q = <<"2">> -> [n |-> 2, d |-> 1]
      [] q = <<"1", ".", "5">> -> [n |-> 3, d |-> 2]

\* the multiplier of a unit for quantity q
UnitMultiplier(q, unit) ==
    CASE unit = <<"m", "l">> -> [n |-> q.n, d |-> q.d * 250]
      [] unit = <<"l">> -> [n |-> q.n * 4, d |-> q.d]
      [] unit = <<"g">> -> [n |-> q.n, d |-> q.d * 100]
      [] unit = <<"k", "g">> -> [n |-> q.n * 10, d |-> q.d]
      [] unit = <<"o", "z">> -> [n |-> q.n, d |-> q.d * 4]
      [] unit \in {<<"c", "u", "p">>, <<"c", "u", "p", "s">>} -> q
      [] unit = <<"t", "b", "s", "p">> -> [n |-> q.n, d |-> q.d * 16]
      [] unit = <<"t", "s", "p">> -> [n |-> q.n, d |-> q.d * 48]

\* the base calories of the foods of the inputs: the Rice row, else Default
BaseCalories(food) == IF food = <<"r", "i", "c", "e">> THEN 205 ELSE 100

\* v * m rounded to the nearest integer, a half up
RoundHalfUp(v, m) == (2 * v * m.n + m.d) \div (2 * m.d)

\* C35: for every quantity q >= 0 and every unit the parsed calories are
\* round(base calories * m) for the unit's multiplier m, and a quantity of 0
\* gives 0 calories and 0 for every macro.
C35_ScaledCalories ==
    \A t \in Tasks : \A i \in InputsOf(t) :
        Len(i.unit) > 0 =>
            /\ tasks[t].nutrition.calories =
                   RoundHalfUp(BaseCalories(i.food), UnitMultiplier(QuantityOf(i.q), i.unit))
            /\ i.q = <<"0">> =>
                   \A k \in {"calories", "protein", "carbs", "fat"} : tasks[t].nutrition[k] = 0

C37_GoalsOnlyFromSixNumbers ==
    [][goals' # goals =>
          \E t \in Tasks :
              /\ Moved(t) /\ tasks'[t].kind = "dialog"
              /\ tasks'[t].text = DialogTexts.six
              /\ goals' = saveGoals([calories |-> 2000, protein |-> 150, carbs |-> 250,
                                     fat |-> 70, fiber |-> 25, hydration |-> 2000])]_vars

\* ---------------------------------------------------------------- C38
\* C38: when '/cancel' arrives in a chat whose /feedback listener is
\* registered, the bot answers 'Feedback cancelled.' and forwards nothing to
\* the developer.
C38_FeedbackCancel ==
    [][\A t \in Tasks :
           (/\ Moved(t) /\ tasks'[t].kind = "dialog"
            /\ tasks'[t].text = DialogTexts.cancel
            /\ \E j \in DOMAIN listeners : /\ listeners[j].kind = "feedback"
                                            /\ listeners[j].chat = tasks'[t].chat)
           => /\ \E k \in DOMAIN tasks'[t].answers :
                     tasks'[t].answers[k] = "Feedback cancelled."
              /\ tasks'[t].forwarded = 0]_vars

\* ---------------------------------------------------------------- C39
\* C39: every listener a dialog registered has handled at most one message of
\* its chat.
C39_ListenerHandlesOnce ==
    \A j \in DOMAIN listeners : listeners[j].handled <= 1

====
